---- MODULE Spec2Model ----
(***************************************************************************)
(* Verification model of the Visit Value Index (VVI) Streamlit app,        *)
(* src/app.py: the scoring / classification / scenario-lookup engine of    *)
(* the results block, with Python's float arithmetic modelled as IEEE 754  *)
(* binary64 (53-bit significand, round-half-to-even).                      *)
(***************************************************************************)
EXTENDS Integers, Sequences, FiniteSets, TLC

(***************************************************************************)
(* Natural numbers of arbitrary size, as little-endian sequences of limbs  *)
(* in base 2^15 without leading zero limbs (<<>> is 0).  They carry the    *)
(* 53-bit significands of Python floats and the wider intermediate values  *)
(* of a correctly rounded operation.                                       *)
(***************************************************************************)
LimbBits == 15

Base == 2^LimbBits

RECURSIVE BTrim(_)
BTrim(a) ==
    IF a = <<>> THEN <<>>
    ELSE IF a[Len(a)] = 0 THEN BTrim(SubSeq(a, 1, Len(a) - 1))
    ELSE a

RECURSIVE BFromInt(_)
BFromInt(n) == IF n = 0 THEN <<>> ELSE <<n % Base>> \o BFromInt(n \div Base)

Limb(a, i) == IF i <= Len(a) THEN a[i] ELSE 0

RECURSIVE BCmpAt(_, _, _)
BCmpAt(a, b, i) ==
    IF i = 0 THEN 0
    ELSE IF a[i] > b[i] THEN 1
    ELSE IF a[i] < b[i] THEN -1
    ELSE BCmpAt(a, b, i - 1)

\* -1, 0 or 1 as a < b, a = b, a > b
BCmp(a, b) ==
    IF Len(a) > Len(b) THEN 1
    ELSE IF Len(a) < Len(b) THEN -1
    ELSE BCmpAt(a, b, Len(a))

RECURSIVE BAddAt(_, _, _, _)
BAddAt(a, b, i, c) ==
    IF i > Len(a) /\ i > Len(b)
    THEN (IF c = 0 THEN <<>> ELSE <<c>>)
    ELSE LET s == Limb(a, i) + Limb(b, i) + c
         IN  <<s % Base>> \o BAddAt(a, b, i + 1, s \div Base)

BAdd(a, b) == BAddAt(a, b, 1, 0)

RECURSIVE BSubAt(_, _, _, _)
BSubAt(a, b, i, c) ==
    IF i > Len(a) THEN <<>>
    ELSE LET s == a[i] - Limb(b, i) - c
         IN  IF s < 0 THEN <<s + Base>> \o BSubAt(a, b, i + 1, 1)
             ELSE <<s>> \o BSubAt(a, b, i + 1, 0)

\* a - b, for a >= b
BSub(a, b) == BTrim(BSubAt(a, b, 1, 0))

RECURSIVE BMulSmallAt(_, _, _, _)
BMulSmallAt(a, k, i, c) ==
    IF i > Len(a) THEN (IF c = 0 THEN <<>> ELSE <<c>>)
    ELSE LET s == a[i] * k + c
         IN  <<s % Base>> \o BMulSmallAt(a, k, i + 1, s \div Base)

\* a * k, for 0 <= k < Base
BMulSmall(a, k) == IF k = 0 THEN <<>> ELSE BMulSmallAt(a, k, 1, 0)

RECURSIVE BShlLimbs(_, _)
BShlLimbs(a, q) == IF a = <<>> \/ q = 0 THEN a ELSE BShlLimbs(<<0>> \o a, q - 1)

RECURSIVE BMulAt(_, _, _)
BMulAt(a, b, j) ==
    IF j > Len(b) THEN <<>>
    ELSE BAdd(BShlLimbs(BMulSmall(a, b[j]), j - 1), BMulAt(a, b, j + 1))

BMul(a, b) == BMulAt(a, b, 1)

\* a * 2^k
BShl(a, k) == BMulSmall(BShlLimbs(a, k \div LimbBits), 2^(k % LimbBits))

RECURSIVE BDivSmallAt(_, _, _, _)
BDivSmallAt(a, d, i, r) ==
    IF i = 0 THEN <<>>
    ELSE LET s == r * Base + a[i]
         IN  BDivSmallAt(a, d, i - 1, s % d) \o <<s \div d>>

\* floor(a / d), for 0 < d <= Base
BDivSmall(a, d) == BTrim(BDivSmallAt(a, d, Len(a), 0))

\* floor(a / 2^k)
BShr(a, k) ==
    LET q == k \div LimbBits
    IN  IF q >= Len(a) THEN <<>>
        ELSE BDivSmall(SubSeq(a, q + 1, Len(a)), 2^(k % LimbBits))

RECURSIVE IntBitLen(_)
IntBitLen(n) == IF n = 0 THEN 0 ELSE 1 + IntBitLen(n \div 2)

BBitLen(a) == IF a = <<>> THEN 0 ELSE LimbBits * (Len(a) - 1) + IntBitLen(a[Len(a)])

BIsOdd(a) == a # <<>> /\ a[1] % 2 = 1

BOne == <<1>>

\* The quotient limb q with q * d <= r < (q + 1) * d, found from the estimate
\* qhat >= q by stepping down (d's top limb is at least Base / 2, so the
\* estimate is at most 2 too large).
RECURSIVE BDivFix(_, _, _)
BDivFix(r, d, qhat) ==
    IF BCmp(BMulSmall(d, qhat), r) > 0 THEN BDivFix(r, d, qhat - 1) ELSE qhat

BDivLimb(r, d) ==
    LET n    == Len(d)
        top2 == Limb(r, n + 1) * Base + Limb(r, n)
        est  == top2 \div d[n]
    IN  BDivFix(r, d, IF est > Base - 1 THEN Base - 1 ELSE est)

\* Schoolbook long division, from limb j of a downwards: q collects the
\* quotient limbs, r is the running remainder (r < d).
RECURSIVE BDivAt(_, _, _, _, _)
BDivAt(a, d, j, q, r) ==
    IF j = 0 THEN <<BTrim(q), r>>
    ELSE LET r1 == BTrim(<<a[j]>> \o r)
             ql == BDivLimb(r1, d)
         IN  BDivAt(a, d, j - 1, <<ql>> \o q, BSub(r1, BMulSmall(d, ql)))

\* <<floor(a / d), rem>> for d > 0, where rem = <<>> exactly when d divides a
BDivMod(a, d) ==
    LET k == LimbBits - IntBitLen(d[Len(d)])
    IN  BDivAt(BShl(a, k), BShl(d, k), Len(BShl(a, k)), <<>>, <<>>)

(***************************************************************************)
(* Python float: a non-negative IEEE 754 binary64 value m * 2^e with m a   *)
(* 53-bit significand (2^52 <= m < 2^53), or zero (m = 0).  exc marks the  *)
(* value of an expression that raised ZeroDivisionError.  The inputs are   *)
(* bounded far inside the exponent range, so overflow, underflow and       *)
(* subnormals do not arise; the values of this program are never negative. *)
(***************************************************************************)
MantBits == 53

FZero == [exc |-> FALSE, m |-> <<>>, e |-> 0]

FExc == [exc |-> TRUE, m |-> <<>>, e |-> 0]

FIsZero(x) == ~x.exc /\ x.m = <<>>

\* The float nearest to N * 2^e (N a natural number), ties to even; sticky
\* says the exact value lies strictly between N * 2^e and (N + 1) * 2^e.
FRound(N, e, sticky) ==
    LET L == BBitLen(N)
    IN  IF N = <<>> THEN FZero
        ELSE IF L <= MantBits
        THEN [exc |-> FALSE, m |-> BShl(N, MantBits - L), e |-> e - (MantBits - L)]
        ELSE LET s    == L - MantBits
                 q    == BShr(N, s)
                 r    == BSub(N, BShl(q, s))
                 c    == BCmp(r, BShl(BOne, s - 1))
                 up   == c > 0 \/ (c = 0 /\ (sticky \/ BIsOdd(q)))
                 q1   == IF up THEN BAdd(q, BOne) ELSE q
             IN  IF BBitLen(q1) > MantBits
                 THEN [exc |-> FALSE, m |-> BShr(q1, 1), e |-> e + s + 1]
                 ELSE [exc |-> FALSE, m |-> q1, e |-> e + s]

FromBig(N) == FRound(N, 0, FALSE)

\* float(n) for an integer n >= 0
FromInt(n) == FromBig(BFromInt(n))

DivBits == MantBits + 2

\* x / y: correctly rounded quotient; ZeroDivisionError when y is 0.0
FDiv(x, y) ==
    IF x.exc \/ y.exc \/ FIsZero(y) THEN FExc
    ELSE IF FIsZero(x) THEN FZero
    ELSE LET qr == BDivMod(BShl(x.m, DivBits), y.m)
         IN  FRound(qr[1], x.e - y.e - DivBits, qr[2] # <<>>)

\* x * y: correctly rounded product
FMul(x, y) ==
    IF x.exc \/ y.exc THEN FExc
    ELSE IF FIsZero(x) \/ FIsZero(y) THEN FZero
    ELSE FRound(BMul(x.m, y.m), x.e + y.e, FALSE)

\* -1, 0 or 1 as x < y, x = y, x > y (neither an exception)
FCmp(x, y) ==
    IF FIsZero(x) THEN (IF FIsZero(y) THEN 0 ELSE -1)
    ELSE IF FIsZero(y) THEN 1
    ELSE IF x.e > y.e THEN 1
    ELSE IF x.e < y.e THEN -1
    ELSE BCmp(x.m, y.m)

FGe(x, y) == FCmp(x, y) >= 0

FLt(x, y) == FCmp(x, y) < 0

\* The float a number widget holds for the decimal amount c / 100: the
\* double nearest to it.
FromCents(c) == FDiv(FromInt(c), FromInt(100))

\* The integer nearest to 10 * x, ties to even, computed on the exact
\* binary value of x (the decimal digits round(x, 1) keeps).
RoundTenths(x) ==
    LET N == BMulSmall(x.m, 10)
    IN  IF x.e >= 0 THEN BShl(N, x.e)
        ELSE LET s  == -x.e
                 q  == BShr(N, s)
                 r  == BSub(N, BShl(q, s))
                 c  == BCmp(r, BShl(BOne, s - 1))
                 up == c > 0 \/ (c = 0 /\ BIsOdd(q))
             IN  IF up THEN BAdd(q, BOne) ELSE q

\* round(x, 1): the double nearest to the one-decimal value
round1(x) == IF x.exc THEN FExc ELSE FDiv(FromBig(RoundTenths(x)), FromInt(10))

\* f"{x:.1f}": the tenths the displayed decimal has (the decimal with one
\* digit after the point nearest to the exact value of x, ties to even)
FormatTenths(x) == RoundTenths(x)

\* x + y for x, y >= 0: the correctly rounded sum
FAdd(x, y) ==
    IF x.exc \/ y.exc THEN FExc
    ELSE IF FIsZero(x) THEN y
    ELSE IF FIsZero(y) THEN x
    ELSE LET e == IF x.e < y.e THEN x.e ELSE y.e
         IN  FRound(BAdd(BShl(x.m, x.e - e), BShl(y.m, y.e - e)), e, FALSE)

\* x - y for x >= y >= 0: the correctly rounded difference
FSub(x, y) ==
    IF x.exc \/ y.exc THEN FExc
    ELSE IF FIsZero(y) THEN x
    ELSE LET e == IF x.e < y.e THEN x.e ELSE y.e
         IN  FRound(BSub(BShl(x.m, x.e - e), BShl(y.m, y.e - e)), e, FALSE)

\* The integer nearest to 100 * x, ties to even, computed on the exact
\* binary value of x: the cents f"{x:,.2f}" shows
FormatCents(x) ==
    LET N == BMulSmall(x.m, 100)
    IN  IF x.e >= 0 THEN BShl(N, x.e)
        ELSE LET s  == -x.e
                 q  == BShr(N, s)
                 r  == BSub(N, BShl(q, s))
                 c  == BCmp(r, BShl(BOne, s - 1))
                 up == c > 0 \/ (c = 0 /\ BIsOdd(q))
             IN  IF up THEN BAdd(q, BOne) ELSE q

(***************************************************************************)
(* Floats with a sign, for the simulator's deltas: neg says the value is   *)
(* below zero and abs is its magnitude.  A zero is kept without sign: the  *)
(* program only compares and adds its zeros, which -0.0 and 0.0 do alike.  *)
(***************************************************************************)
Signed(neg, a) == [neg |-> neg /\ ~FIsZero(a), abs |-> a]

\* The float a number widget holds for the decimal amount c / 100, c an
\* integer of either sign
SFromCents(c) == Signed(c < 0, FromCents(IF c < 0 THEN -c ELSE c))

\* x + y
SAdd(x, y) ==
    IF x.neg = y.neg THEN Signed(x.neg, FAdd(x.abs, y.abs))
    ELSE IF FGe(x.abs, y.abs) THEN Signed(x.neg, FSub(x.abs, y.abs))
    ELSE Signed(y.neg, FSub(y.abs, x.abs))

\* x * y
SMul(x, y) == Signed(x.neg # y.neg, FMul(x.abs, y.abs))

\* x / y for a float y > 0
SDiv(x, y) == Signed(x.neg, FDiv(x.abs, y))

\* max(x, y) for a float y > 0: x unless y is greater
SMax(x, y) == IF x.neg \/ FLt(x.abs, y) THEN y ELSE x.abs

(***************************************************************************)
(* Core helpers and configuration                                          *)
(***************************************************************************)
TIER_ORDER == <<"Critical", "At Risk", "Stable", "Excellent">>

Tiers == {TIER_ORDER[i] : i \in 1..Len(TIER_ORDER)}

\* Mutant: the Excellent band opens above 100 instead of at 100
tier_from_score_gt100(score) ==
    IF FCmp(score, FromInt(100)) > 0 THEN "Excellent"
    ELSE IF FGe(score, FromInt(95)) THEN "Stable"
    ELSE IF FGe(score, FromInt(90)) /\ FLt(score, FromInt(95)) THEN "At Risk"
    ELSE "Critical"

tier_from_score(score) ==
    IF FGe(score, FromInt(100)) THEN "Excellent"
    ELSE IF FGe(score, FromInt(95)) /\ FLt(score, FromInt(100)) THEN "Stable"
    ELSE IF FGe(score, FromInt(90)) /\ FLt(score, FromInt(95)) THEN "At Risk"
    ELSE "Critical"

\* tier = tier_from_score  (alias)
tier(score) == tier_from_score(score)

\* The SCENARIO_LOOKUP literal: RF/LF tier pair -> scenario key
ScenarioLookupLiteral ==
    <<"Excellent", "Excellent">> :> "scenario_01" @@
    <<"Excellent", "Stable">>    :> "scenario_02" @@
    <<"Excellent", "At Risk">>   :> "scenario_03" @@
    <<"Excellent", "Critical">>  :> "scenario_04" @@
    <<"Stable", "Excellent">>    :> "scenario_05" @@
    <<"Stable", "Stable">>       :> "scenario_06" @@
    <<"Stable", "At Risk">>      :> "scenario_07" @@
    <<"Stable", "Critical">>     :> "scenario_08" @@
    <<"At Risk", "Excellent">>   :> "scenario_09" @@
    <<"At Risk", "Stable">>      :> "scenario_10" @@
    <<"At Risk", "At Risk">>     :> "scenario_11" @@
    <<"At Risk", "Critical">>    :> "scenario_12" @@
    <<"Critical", "Excellent">>  :> "scenario_13" @@
    <<"Critical", "Stable">>     :> "scenario_14" @@
    <<"Critical", "At Risk">>    :> "scenario_15" @@
    <<"Critical", "Critical">>   :> "scenario_16"

\* The INSIGHT_PACKS literal.  The prose of a pack is data: the narrative
\* and every action are named by their place in the literal (scenario,
\* list, position), the lists keep their lengths and order.
InsightPacksLiteral ==
    "scenario_01" :> [id |-> 1, rf_tier |-> "Excellent", lf_tier |-> "Excellent",
        label |-> "High Revenue + Efficient Labor",
        executive_narrative |-> "s01.executive_narrative",
        do_tomorrow |-> <<"s01.do_tomorrow.1", "s01.do_tomorrow.2", "s01.do_tomorrow.3">>,
        next_7_days |-> <<"s01.next_7_days.1", "s01.next_7_days.2", "s01.next_7_days.3">>,
        next_30_60_days |-> <<"s01.next_30_60_days.1", "s01.next_30_60_days.2", "s01.next_30_60_days.3">>,
        next_60_90_days |-> <<"s01.next_60_90_days.1", "s01.next_60_90_days.2", "s01.next_60_90_days.3">>]
    @@
    "scenario_02" :> [id |-> 2, rf_tier |-> "Excellent", lf_tier |-> "Stable",
        label |-> "High Revenue + Stable Labor",
        executive_narrative |-> "s02.executive_narrative",
        do_tomorrow |-> <<"s02.do_tomorrow.1", "s02.do_tomorrow.2", "s02.do_tomorrow.3">>,
        next_7_days |-> <<"s02.next_7_days.1", "s02.next_7_days.2", "s02.next_7_days.3">>,
        next_30_60_days |-> <<"s02.next_30_60_days.1", "s02.next_30_60_days.2", "s02.next_30_60_days.3">>,
        next_60_90_days |-> <<"s02.next_60_90_days.1", "s02.next_60_90_days.2", "s02.next_60_90_days.3">>]
    @@
    "scenario_03" :> [id |-> 3, rf_tier |-> "Excellent", lf_tier |-> "At Risk",
        label |-> "High Revenue + Emerging Labor Inefficiency",
        executive_narrative |-> "s03.executive_narrative",
        do_tomorrow |-> <<"s03.do_tomorrow.1", "s03.do_tomorrow.2", "s03.do_tomorrow.3">>,
        next_7_days |-> <<"s03.next_7_days.1", "s03.next_7_days.2", "s03.next_7_days.3", "s03.next_7_days.4">>,
        next_30_60_days |-> <<"s03.next_30_60_days.1", "s03.next_30_60_days.2", "s03.next_30_60_days.3", "s03.next_30_60_days.4">>,
        next_60_90_days |-> <<"s03.next_60_90_days.1", "s03.next_60_90_days.2", "s03.next_60_90_days.3">>]
    @@
    "scenario_04" :> [id |-> 4, rf_tier |-> "Excellent", lf_tier |-> "Critical",
        label |-> "High Revenue + Severe Labor Inefficiency",
        executive_narrative |-> "s04.executive_narrative",
        do_tomorrow |-> <<"s04.do_tomorrow.1", "s04.do_tomorrow.2", "s04.do_tomorrow.3">>,
        next_7_days |-> <<"s04.next_7_days.1", "s04.next_7_days.2", "s04.next_7_days.3", "s04.next_7_days.4", "s04.next_7_days.5", "s04.next_7_days.6">>,
        next_30_60_days |-> <<"s04.next_30_60_days.1", "s04.next_30_60_days.2", "s04.next_30_60_days.3", "s04.next_30_60_days.4", "s04.next_30_60_days.5">>,
        next_60_90_days |-> <<"s04.next_60_90_days.1", "s04.next_60_90_days.2", "s04.next_60_90_days.3", "s04.next_60_90_days.4">>]
    @@
    "scenario_05" :> [id |-> 5, rf_tier |-> "Stable", lf_tier |-> "Excellent",
        label |-> "Stable Revenue + Efficient Labor",
        executive_narrative |-> "s05.executive_narrative",
        do_tomorrow |-> <<"s05.do_tomorrow.1", "s05.do_tomorrow.2", "s05.do_tomorrow.3">>,
        next_7_days |-> <<"s05.next_7_days.1", "s05.next_7_days.2", "s05.next_7_days.3", "s05.next_7_days.4", "s05.next_7_days.5">>,
        next_30_60_days |-> <<"s05.next_30_60_days.1", "s05.next_30_60_days.2", "s05.next_30_60_days.3", "s05.next_30_60_days.4">>,
        next_60_90_days |-> <<"s05.next_60_90_days.1", "s05.next_60_90_days.2", "s05.next_60_90_days.3", "s05.next_60_90_days.4">>]
    @@
    "scenario_06" :> [id |-> 6, rf_tier |-> "Stable", lf_tier |-> "Stable",
        label |-> "Balanced Revenue + Balanced Labor",
        executive_narrative |-> "s06.executive_narrative",
        do_tomorrow |-> <<"s06.do_tomorrow.1", "s06.do_tomorrow.2", "s06.do_tomorrow.3">>,
        next_7_days |-> <<"s06.next_7_days.1", "s06.next_7_days.2", "s06.next_7_days.3", "s06.next_7_days.4", "s06.next_7_days.5">>,
        next_30_60_days |-> <<"s06.next_30_60_days.1", "s06.next_30_60_days.2", "s06.next_30_60_days.3", "s06.next_30_60_days.4">>,
        next_60_90_days |-> <<"s06.next_60_90_days.1", "s06.next_60_90_days.2", "s06.next_60_90_days.3", "s06.next_60_90_days.4">>]
    @@
    "scenario_07" :> [id |-> 7, rf_tier |-> "Stable", lf_tier |-> "At Risk",
        label |-> "Balanced Revenue + Emerging Labor Inefficiency",
        executive_narrative |-> "s07.executive_narrative",
        do_tomorrow |-> <<"s07.do_tomorrow.1", "s07.do_tomorrow.2", "s07.do_tomorrow.3">>,
        next_7_days |-> <<"s07.next_7_days.1", "s07.next_7_days.2", "s07.next_7_days.3", "s07.next_7_days.4", "s07.next_7_days.5">>,
        next_30_60_days |-> <<"s07.next_30_60_days.1", "s07.next_30_60_days.2", "s07.next_30_60_days.3", "s07.next_30_60_days.4", "s07.next_30_60_days.5">>,
        next_60_90_days |-> <<"s07.next_60_90_days.1", "s07.next_60_90_days.2", "s07.next_60_90_days.3", "s07.next_60_90_days.4">>]
    @@
    "scenario_08" :> [id |-> 8, rf_tier |-> "Stable", lf_tier |-> "Critical",
        label |-> "Balanced Revenue + Severe Labor Inefficiency",
        executive_narrative |-> "s08.executive_narrative",
        do_tomorrow |-> <<"s08.do_tomorrow.1", "s08.do_tomorrow.2", "s08.do_tomorrow.3">>,
        next_7_days |-> <<"s08.next_7_days.1", "s08.next_7_days.2", "s08.next_7_days.3", "s08.next_7_days.4", "s08.next_7_days.5", "s08.next_7_days.6">>,
        next_30_60_days |-> <<"s08.next_30_60_days.1", "s08.next_30_60_days.2", "s08.next_30_60_days.3", "s08.next_30_60_days.4", "s08.next_30_60_days.5">>,
        next_60_90_days |-> <<"s08.next_60_90_days.1", "s08.next_60_90_days.2", "s08.next_60_90_days.3", "s08.next_60_90_days.4">>]
    @@
    "scenario_09" :> [id |-> 9, rf_tier |-> "At Risk", lf_tier |-> "Excellent",
        label |-> "Low Revenue + Strong Labor Efficiency",
        executive_narrative |-> "s09.executive_narrative",
        do_tomorrow |-> <<"s09.do_tomorrow.1", "s09.do_tomorrow.2", "s09.do_tomorrow.3">>,
        next_7_days |-> <<"s09.next_7_days.1", "s09.next_7_days.2", "s09.next_7_days.3", "s09.next_7_days.4", "s09.next_7_days.5">>,
        next_30_60_days |-> <<"s09.next_30_60_days.1", "s09.next_30_60_days.2", "s09.next_30_60_days.3", "s09.next_30_60_days.4">>,
        next_60_90_days |-> <<"s09.next_60_90_days.1", "s09.next_60_90_days.2", "s09.next_60_90_days.3", "s09.next_60_90_days.4">>]
    @@
    "scenario_10" :> [id |-> 10, rf_tier |-> "At Risk", lf_tier |-> "Stable",
        label |-> "Low Revenue + Steady Labor",
        executive_narrative |-> "s10.executive_narrative",
        do_tomorrow |-> <<"s10.do_tomorrow.1", "s10.do_tomorrow.2", "s10.do_tomorrow.3">>,
        next_7_days |-> <<"s10.next_7_days.1", "s10.next_7_days.2", "s10.next_7_days.3", "s10.next_7_days.4", "s10.next_7_days.5">>,
        next_30_60_days |-> <<"s10.next_30_60_days.1", "s10.next_30_60_days.2", "s10.next_30_60_days.3", "s10.next_30_60_days.4">>,
        next_60_90_days |-> <<"s10.next_60_90_days.1", "s10.next_60_90_days.2", "s10.next_60_90_days.3", "s10.next_60_90_days.4">>]
    @@
    "scenario_11" :> [id |-> 11, rf_tier |-> "At Risk", lf_tier |-> "At Risk",
        label |-> "Dual Drift: Revenue Softness + Labor Inefficiency",
        executive_narrative |-> "s11.executive_narrative",
        do_tomorrow |-> <<"s11.do_tomorrow.1", "s11.do_tomorrow.2", "s11.do_tomorrow.3">>,
        next_7_days |-> <<"s11.next_7_days.1", "s11.next_7_days.2", "s11.next_7_days.3", "s11.next_7_days.4", "s11.next_7_days.5">>,
        next_30_60_days |-> <<"s11.next_30_60_days.1", "s11.next_30_60_days.2", "s11.next_30_60_days.3", "s11.next_30_60_days.4">>,
        next_60_90_days |-> <<"s11.next_60_90_days.1", "s11.next_60_90_days.2", "s11.next_60_90_days.3", "s11.next_60_90_days.4">>]
    @@
    "scenario_12" :> [id |-> 12, rf_tier |-> "At Risk", lf_tier |-> "Critical",
        label |-> "Low Revenue + Severe Labor Inefficiency",
        executive_narrative |-> "s12.executive_narrative",
        do_tomorrow |-> <<"s12.do_tomorrow.1", "s12.do_tomorrow.2", "s12.do_tomorrow.3">>,
        next_7_days |-> <<"s12.next_7_days.1", "s12.next_7_days.2", "s12.next_7_days.3", "s12.next_7_days.4", "s12.next_7_days.5">>,
        next_30_60_days |-> <<"s12.next_30_60_days.1", "s12.next_30_60_days.2", "s12.next_30_60_days.3", "s12.next_30_60_days.4", "s12.next_30_60_days.5">>,
        next_60_90_days |-> <<"s12.next_60_90_days.1", "s12.next_60_90_days.2", "s12.next_60_90_days.3", "s12.next_60_90_days.4">>]
    @@
    "scenario_13" :> [id |-> 13, rf_tier |-> "Critical", lf_tier |-> "Excellent",
        label |-> "Severe Revenue Leakage + Highly Efficient Labor",
        executive_narrative |-> "s13.executive_narrative",
        do_tomorrow |-> <<"s13.do_tomorrow.1", "s13.do_tomorrow.2", "s13.do_tomorrow.3">>,
        next_7_days |-> <<"s13.next_7_days.1", "s13.next_7_days.2", "s13.next_7_days.3", "s13.next_7_days.4", "s13.next_7_days.5">>,
        next_30_60_days |-> <<"s13.next_30_60_days.1", "s13.next_30_60_days.2", "s13.next_30_60_days.3", "s13.next_30_60_days.4">>,
        next_60_90_days |-> <<"s13.next_60_90_days.1", "s13.next_60_90_days.2", "s13.next_60_90_days.3", "s13.next_60_90_days.4">>]
    @@
    "scenario_14" :> [id |-> 14, rf_tier |-> "Critical", lf_tier |-> "Stable",
        label |-> "Severe Revenue Leakage + Labor Near Benchmark",
        executive_narrative |-> "s14.executive_narrative",
        do_tomorrow |-> <<"s14.do_tomorrow.1", "s14.do_tomorrow.2", "s14.do_tomorrow.3">>,
        next_7_days |-> <<"s14.next_7_days.1", "s14.next_7_days.2", "s14.next_7_days.3", "s14.next_7_days.4", "s14.next_7_days.5">>,
        next_30_60_days |-> <<"s14.next_30_60_days.1", "s14.next_30_60_days.2", "s14.next_30_60_days.3", "s14.next_30_60_days.4">>,
        next_60_90_days |-> <<"s14.next_60_90_days.1", "s14.next_60_90_days.2", "s14.next_60_90_days.3", "s14.next_60_90_days.4">>]
    @@
    "scenario_15" :> [id |-> 15, rf_tier |-> "Critical", lf_tier |-> "At Risk",
        label |-> "Severe Revenue Leakage + Early Labor Inefficiency",
        executive_narrative |-> "s15.executive_narrative",
        do_tomorrow |-> <<"s15.do_tomorrow.1", "s15.do_tomorrow.2", "s15.do_tomorrow.3">>,
        next_7_days |-> <<"s15.next_7_days.1", "s15.next_7_days.2", "s15.next_7_days.3", "s15.next_7_days.4", "s15.next_7_days.5">>,
        next_30_60_days |-> <<"s15.next_30_60_days.1", "s15.next_30_60_days.2", "s15.next_30_60_days.3", "s15.next_30_60_days.4">>,
        next_60_90_days |-> <<"s15.next_60_90_days.1", "s15.next_60_90_days.2", "s15.next_60_90_days.3", "s15.next_60_90_days.4">>]
    @@
    "scenario_16" :> [id |-> 16, rf_tier |-> "Critical", lf_tier |-> "Critical",
        label |-> "Systemic Distress: Low Revenue + High Labor Cost",
        executive_narrative |-> "s16.executive_narrative",
        do_tomorrow |-> <<"s16.do_tomorrow.1", "s16.do_tomorrow.2", "s16.do_tomorrow.3">>,
        next_7_days |-> <<"s16.next_7_days.1", "s16.next_7_days.2", "s16.next_7_days.3", "s16.next_7_days.4", "s16.next_7_days.5">>,
        next_30_60_days |-> <<"s16.next_30_60_days.1", "s16.next_30_60_days.2", "s16.next_30_60_days.3", "s16.next_30_60_days.4">>,
        next_60_90_days |-> <<"s16.next_60_90_days.1", "s16.next_60_90_days.2", "s16.next_60_90_days.3", "s16.next_60_90_days.4">>]

(***************************************************************************)
(* The state: the module-level tables, the five number widgets of the      *)
(* input form (st.session_state.*_input; money in cents, as the "%.2f"     *)
(* widgets hold it), the outcome of the results block, and the record of   *)
(* a direct call of a helper; of the session, st.session_state.runs and    *)
(* st.session_state.assessment_ready, what the last script run put on the  *)
(* page below the results (page), and the evaluations the results block    *)
(* has made so far in the session (evals, a history).                      *)
(***************************************************************************)
VARIABLES SCENARIO_LOOKUP, INSIGHT_PACKS,
          visits_input, net_rev_input, labor_cost_input,
          rev_target_input, lab_target_input,
          res, call,
          runs, assessment_ready, page, evals, sim

vars == <<SCENARIO_LOOKUP, INSIGHT_PACKS, visits_input, net_rev_input,
          labor_cost_input, rev_target_input, lab_target_input, res, call,
          runs, assessment_ready, page, evals, sim>>

WidgetValues ==
    <<visits_input, net_rev_input, labor_cost_input, rev_target_input, lab_target_input>>

\* Python's None, for a scenario key and for an Insight Pack
NoKey == "None"

NoPack == [none |-> TRUE]

\* Mutant: the table is read with the labor tier first
LookupGet_swapped(rf_t, lf_t) ==
    IF <<lf_t, rf_t>> \in DOMAIN SCENARIO_LOOKUP
    THEN SCENARIO_LOOKUP[<<lf_t, rf_t>>] ELSE NoKey

\* SCENARIO_LOOKUP.get((rf_t, lf_t))
LookupGet(rf_t, lf_t) ==
    IF <<rf_t, lf_t>> \in DOMAIN SCENARIO_LOOKUP
    THEN SCENARIO_LOOKUP[<<rf_t, lf_t>>] ELSE NoKey

\* Mutant: the last pack was never pasted into INSIGHT_PACKS
PacksGet_unpasted(key) ==
    IF key \in DOMAIN INSIGHT_PACKS \ {"scenario_16"} THEN INSIGHT_PACKS[key] ELSE NoPack

\* INSIGHT_PACKS.get(key)
PacksGet(key) == IF key \in DOMAIN INSIGHT_PACKS THEN INSIGHT_PACKS[key] ELSE NoPack

\* Mutant: a missing mapping or pack is passed over without an error message
get_insight_pack_for_tiers_silent(rf_t, lf_t) ==
    LET key == LookupGet(rf_t, lf_t)
    IN  IF key = NoKey THEN [key |-> NoKey, pack |-> NoPack, error |-> ""]
        ELSE [key |-> key, pack |-> PacksGet(key), error |-> ""]

\* Mutant: the scenario key of the results on the page is used again
get_insight_pack_for_tiers_cached(rf_t, lf_t) ==
    LET key == IF res.outcome = "rendered" THEN res.scenario_key
               ELSE LookupGet(rf_t, lf_t)
    IN  IF key = NoKey
        THEN [key |-> NoKey, pack |-> NoPack, error |-> "No scenario mapping configured"]
        ELSE IF PacksGet(key) = NoPack
        THEN [key |-> key, pack |-> NoPack, error |-> "Scenario not yet configured in INSIGHT_PACKS"]
        ELSE [key |-> key, pack |-> PacksGet(key), error |-> ""]

\* Returns (key, pack); error is the st.error message shown, "" for none.
get_insight_pack_for_tiers(rf_t, lf_t) ==
    LET key == LookupGet(rf_t, lf_t)
    IN  IF key = NoKey
        THEN [key |-> NoKey, pack |-> NoPack, error |-> "No scenario mapping configured"]
        ELSE IF PacksGet(key) = NoPack
        THEN [key |-> key, pack |-> NoPack, error |-> "Scenario not yet configured in INSIGHT_PACKS"]
        ELSE [key |-> key, pack |-> PacksGet(key), error |-> ""]

\* Mutant: the slice is left out
Take_all(s, n) == s

\* s[:n]
Take(s, n) == SubSeq(s, 1, IF Len(s) < n THEN Len(s) ELSE n)

\* The two actions of a point-of-service capture patch, as the actions the
\* lists are compared with
PosPushAction == "Run POS co-pay capture push"

PosAuditAction == "Quick POS audit"

\* The two universal actions, as the actions the extended list is compared
\* with
HuddleAction == "Hold a daily huddle"

SwbContextAction == "Treat labor share of revenue (SWB%) as context only"

\* The scenario part of the results block with extra added to the extended
\* list of a resolved scenario
ScenarioBlockWith(rf_t, lf_t, extra) ==
    LET got == get_insight_pack_for_tiers(rf_t, lf_t)
        p   == got.pack
    IN  IF p # NoPack
        THEN [scenario_key |-> got.key, insight_pack |-> p, error |-> got.error,
              scenario_text |->
                  IF p.executive_narrative # ""
                  THEN <<p.executive_narrative>> ELSE <<p.label>>,
              top3_actions |-> Take(p.do_tomorrow \o p.next_7_days, 3),
              extended_actions |->
                  p.do_tomorrow \o p.next_7_days \o p.next_30_60_days
                  \o p.next_60_90_days \o extra]
        ELSE [scenario_key |-> got.key, insight_pack |-> NoPack, error |-> got.error,
              scenario_text |-> <<rf_t, " Revenue / ", lf_t, " Labor">>,
              top3_actions |-> <<>>,
              extended_actions |-> <<>>]

\* Mutant: a POS audit is added to the extended list
ScenarioBlock_pos_audit(rf_t, lf_t) == ScenarioBlockWith(rf_t, lf_t, <<PosAuditAction>>)

\* Mutant: the two universal actions are added to the extended list
ScenarioBlock_universal(rf_t, lf_t) ==
    ScenarioBlockWith(rf_t, lf_t, <<HuddleAction, SwbContextAction>>)

\* The scenario part of the results block: the lookup and the texts and
\* action lists derived from the pack, or their fallbacks.  A text is the
\* sequence of the pieces it is put together from.
ScenarioBlock(rf_t, lf_t) ==
    LET got          == get_insight_pack_for_tiers(rf_t, lf_t)
        insight_pack == got.pack
    IN  IF insight_pack # NoPack
        THEN [scenario_key |-> got.key, insight_pack |-> insight_pack,
              error |-> got.error,
              scenario_text |->
                  IF insight_pack.executive_narrative # ""
                  THEN <<insight_pack.executive_narrative>> ELSE <<insight_pack.label>>,
              top3_actions |->
                  Take(insight_pack.do_tomorrow \o insight_pack.next_7_days, 3),
              extended_actions |->
                  insight_pack.do_tomorrow \o insight_pack.next_7_days
                  \o insight_pack.next_30_60_days \o insight_pack.next_60_90_days]
        ELSE [scenario_key |-> got.key, insight_pack |-> NoPack,
              error |-> got.error,
              scenario_text |-> <<rf_t, " Revenue / ", lf_t, " Labor">>,
              top3_actions |-> <<>>,
              extended_actions |-> <<>>]

\* Mutant: the guard lets zero through
InvalidInput_strict(visits, net_rev, labor) == visits < 0 \/ net_rev < 0 \/ labor < 0

\* The guard of the results block on the float()-converted widget values
\* (float() keeps sign and zero, so it is decided on the widget values).
InvalidInput(visits, net_rev, labor) == visits <= 0 \/ net_rev <= 0 \/ labor <= 0

\* Python truth of a float: non-zero
Truthy(x) == ~FIsZero(x)

\* The literal 1.67
VviTargetDefault == FromCents(167)

\* Mutant: the per-visit division is inverted
Rpv_inverted(net_rev, visits) == FDiv(visits, net_rev)

\* rpv = net_rev / visits
Rpv(net_rev, visits) == FDiv(net_rev, visits)

\* lcv = labor / visits
Lcv(labor, visits) == FDiv(labor, visits)

\* Mutant: the division by the revenue target is not guarded
RfRaw_unguarded(rpv, rt) == FDiv(rpv, rt)

\* rf_raw = (rpv / rt) if rt else 0.0
RfRaw(rpv, rt) == IF Truthy(rt) THEN FDiv(rpv, rt) ELSE FZero

\* Mutant: the labor factor is not inverted
LfRaw_uninverted(lt, lcv) == IF Truthy(lt) THEN FDiv(lcv, lt) ELSE FZero

\* lf_raw = (lt / lcv) if lcv else 0.0
LfRaw(lt, lcv) == IF Truthy(lcv) THEN FDiv(lt, lcv) ELSE FZero

\* vvi_raw = (rpv / lcv) if lcv else 0.0
VviRaw(rpv, lcv) == IF Truthy(lcv) THEN FDiv(rpv, lcv) ELSE FZero

\* Mutant: the benchmark ratio is inverted
VviTarget_inverted(rt, lt) ==
    IF Truthy(rt) /\ Truthy(lt) THEN FDiv(lt, rt) ELSE VviTargetDefault

\* vvi_target = (rt / lt) if (rt and lt) else 1.67
VviTarget(rt, lt) ==
    IF Truthy(rt) /\ Truthy(lt) THEN FDiv(rt, lt) ELSE VviTargetDefault

\* vvi_score_raw = (vvi_raw / vvi_target) * 100
VviScoreRaw(vvi_raw, vvi_target) == FMul(FDiv(vvi_raw, vvi_target), FromInt(100))

\* Core metrics, factors and raw scores of the results block
Metrics(visits, net_rev, labor, rt, lt) ==
    LET rpv        == Rpv(net_rev, visits)
        lcv        == Lcv(labor, visits)
        rf_raw     == RfRaw(rpv, rt)
        lf_raw     == LfRaw(lt, lcv)
        vvi_raw    == VviRaw(rpv, lcv)
        vvi_target == VviTarget(rt, lt)
    IN  [rpv |-> rpv, lcv |-> lcv, swb_pct |-> FDiv(labor, net_rev),
         rf_raw |-> rf_raw, lf_raw |-> lf_raw,
         rf_score_raw |-> FMul(rf_raw, FromInt(100)),
         lf_score_raw |-> FMul(lf_raw, FromInt(100)),
         vvi_raw |-> vvi_raw, vvi_target |-> vvi_target,
         vvi_score_raw |-> VviScoreRaw(vvi_raw, vvi_target)]

\* Mutant: a labor share of revenue of 50% or more caps the revenue tier
Scores_swb_capped(m) ==
    [rf_score |-> round1(m.rf_score_raw), lf_score |-> round1(m.lf_score_raw),
     vvi_score |-> round1(m.vvi_score_raw),
     rf_t |-> IF FGe(m.swb_pct, FromCents(50)) THEN "At Risk"
              ELSE tier(round1(m.rf_score_raw)),
     lf_t |-> tier(round1(m.lf_score_raw)),
     vvi_t |-> tier(round1(m.vvi_score_raw))]

\* Mutant: the tiers are taken from the unrounded scores
Scores_unrounded(m) ==
    [rf_score |-> round1(m.rf_score_raw), lf_score |-> round1(m.lf_score_raw),
     vvi_score |-> round1(m.vvi_score_raw),
     rf_t |-> tier(m.rf_score_raw), lf_t |-> tier(m.lf_score_raw),
     vvi_t |-> tier(m.vvi_score_raw)]

\* One-decimal display scores and the tiers based on them
Scores(m) ==
    LET rf_score  == round1(m.rf_score_raw)
        lf_score  == round1(m.lf_score_raw)
        vvi_score == round1(m.vvi_score_raw)
    IN  [rf_score |-> rf_score, lf_score |-> lf_score, vvi_score |-> vvi_score,
         rf_t |-> tier(rf_score), lf_t |-> tier(lf_score), vvi_t |-> tier(vvi_score)]

Stopped == [outcome |-> "stopped"]

Raised == [outcome |-> "ZeroDivisionError"]

\* Mutant: a POS action is added, to the immediate list when the revenue
\* tier is not Excellent and revenue per visit is within 5% of its target,
\* to the extended list otherwise
Scenario_pos_patch(m, sc) ==
    IF sc.rf_t # "Excellent" /\ FGe(m.rf_raw, FromCents(95))
    THEN [ScenarioBlock(sc.rf_t, sc.lf_t) EXCEPT
              !.top3_actions = Append(@, PosPushAction)]
         @@ [outcome |-> "rendered"] @@ m @@ sc
    ELSE [ScenarioBlock(sc.rf_t, sc.lf_t) EXCEPT
              !.extended_actions = Append(@, PosAuditAction)]
         @@ [outcome |-> "rendered"] @@ m @@ sc

\* The rest of the results block once the scores and tiers are known: the
\* scenario lookup and what is derived from the pack.
Scenario(m, sc) ==
    [outcome |-> "rendered"] @@ m @@ sc @@ ScenarioBlock(sc.rf_t, sc.lf_t)

\* The results block from the computed metrics on.  A ZeroDivisionError
\* ends the script run where it is raised.
Scoring(m) ==
    IF \E f \in DOMAIN m : m[f].exc THEN Raised ELSE Scenario(m, Scores(m))

\* Mutant: results already on the page are shown again instead of being
\* recomputed
ResultsBlock_cached(v, n, l, r, t) ==
    IF res.outcome = "rendered" THEN res
    ELSE IF InvalidInput(v, n, l) THEN Stopped
    ELSE Scoring(Metrics(FromInt(v), FromCents(n), FromCents(l),
                         FromCents(r), FromCents(t)))

\* The results block on the five widget values: st.stop() on invalid input,
\* otherwise metrics, scores, tiers and scenario.
ResultsBlock(v, n, l, r, t) ==
    IF InvalidInput(v, n, l) THEN Stopped
    ELSE Scoring(Metrics(FromInt(v), FromCents(n), FromCents(l),
                         FromCents(r), FromCents(t)))

(***************************************************************************)
(* Inputs of the bounded check                                             *)
(***************************************************************************)
MaxVisits == 7

VisitsGrid == -1..MaxVisits

NetGrid == {0, 2300, 2374, 2499, 2500, 2900}

LaborGrid == {0, 2500, 2501, 2632, 2700, 2900}

RevTargetGrid == {0, 2500, 14000}

LabTargetGrid == {0, 2500, 8500}

\* The two worked examples: <<visits, net revenue, labor, targets>>
ExampleInputs ==
    { <<2400, 48000000, 31200000, 20000, 13000>>,
      <<500, 10000000, 6500000, 14000, 8500>> }

Inputs ==
    ExampleInputs \cup
    (VisitsGrid \X NetGrid \X LaborGrid \X RevTargetGrid \X LabTargetGrid)

NotRun == [outcome |-> "none"]

NoCall == [fn |-> "none"]

NoRet == "(not returned)"

\* Scores, in hundredths, that tier_from_score is called on directly
MinScore == 8900

MaxScore == 10100

TierScores == {0} \cup MinScore..MaxScore

\* Inputs run against an incomplete configuration: they reach all 16 tier pairs
ConfigInputs ==
    {1} \X {2300, 2374, 2900} \X {2500, 2632, 2700, 2900} \X {2500, 14000} \X {2500}

\* How many entries a configuration table may lack
MaxMissing == 1

Without(f, D) == [x \in DOMAIN f \ D |-> f[x]]

Lacking(f) ==
    {Without(f, D) : D \in {D \in SUBSET DOMAIN f : Cardinality(D) <= MaxMissing}}

\* The shipped tables, or one of them with entries missing
Configs ==
    {<<lk, InsightPacksLiteral>> : lk \in Lacking(ScenarioLookupLiteral)}
    \cup {<<ScenarioLookupLiteral, pk>> : pk \in Lacking(InsightPacksLiteral)}

(***************************************************************************)
(* The RF / LF tier bundles: for each tier a list of action texts (a text  *)
(* is named by its table, tier and position; no text of these tables is    *)
(* also an action text of an Insight Pack).  The results block does not    *)
(* read them.                                                              *)
(***************************************************************************)
RF_ACTIONS ==
    "Excellent" :> <<"rf.Excellent.1", "rf.Excellent.2", "rf.Excellent.3",
            "rf.Excellent.4", "rf.Excellent.5", "rf.Excellent.6",
            "rf.Excellent.7", "rf.Excellent.8">> @@
    "Stable" :> <<"rf.Stable.1", "rf.Stable.2", "rf.Stable.3", "rf.Stable.4",
            "rf.Stable.5", "rf.Stable.6", "rf.Stable.7">> @@
    "At Risk" :> <<"rf.At Risk.1", "rf.At Risk.2", "rf.At Risk.3",
            "rf.At Risk.4", "rf.At Risk.5", "rf.At Risk.6",
            "rf.At Risk.7">> @@
    "Critical" :> <<"rf.Critical.1", "rf.Critical.2", "rf.Critical.3",
            "rf.Critical.4", "rf.Critical.5", "rf.Critical.6",
            "rf.Critical.7", "rf.Critical.8", "rf.Critical.9",
            "rf.Critical.10">>

LF_ACTIONS ==
    "Excellent" :> <<"lf.Excellent.1", "lf.Excellent.2", "lf.Excellent.3",
            "lf.Excellent.4", "lf.Excellent.5", "lf.Excellent.6",
            "lf.Excellent.7">> @@
    "Stable" :> <<"lf.Stable.1", "lf.Stable.2", "lf.Stable.3", "lf.Stable.4",
            "lf.Stable.5", "lf.Stable.6", "lf.Stable.7">> @@
    "At Risk" :> <<"lf.At Risk.1", "lf.At Risk.2", "lf.At Risk.3",
            "lf.At Risk.4", "lf.At Risk.5", "lf.At Risk.6",
            "lf.At Risk.7">> @@
    "Critical" :> <<"lf.Critical.1", "lf.Critical.2", "lf.Critical.3",
            "lf.Critical.4", "lf.Critical.5", "lf.Critical.6",
            "lf.Critical.7", "lf.Critical.8", "lf.Critical.9">>

(***************************************************************************)
(* The impact simulator: the radio "Adjust by:", the two number inputs of  *)
(* the chosen mode and the table of the current and the simulated values.  *)
(* A delta is held in hundredths, like the amounts of the form.            *)
(***************************************************************************)
SimModes == {"Percent change", "Dollar change"}

\* The widgets as they are first rendered: value=5.0 and value=-5.0
SimDefaults == [mode |-> "Percent change", nrpv_delta |-> 500, lcv_delta |-> -500]

\* No simulator on the page: its widgets are not there
NoSim == SimDefaults @@ [shown |-> FALSE, raised |-> FALSE]

\* The simulator on the page with the widget values w; raised says that the
\* block raised an exception, which the page shows in place of the table
ShownSim(w, raised) == w @@ [shown |-> TRUE, raised |-> raised]

\* The values the simulator's widgets hold in a script run when the user
\* did not touch them: what they held on the last page if they were on it,
\* else their defaults
SimWidgets(last) ==
    IF last.shown
    THEN [mode |-> last.mode, nrpv_delta |-> last.nrpv_delta, lcv_delta |-> last.lcv_delta]
    ELSE SimDefaults

\* Mutant: the simulated value is used as computed, without the floor
SimClamp_none(x) == IF x.neg THEN FZero ELSE x.abs

\* max(x, 0.01)
SimClamp(x) == SMax(x, FromCents(1))

\* Mutant: the percent change is applied as the factor itself
SimAdjust_factor(mode, x, d) ==
    IF mode = "Percent change"
    THEN SMul(Signed(FALSE, x), SDiv(SFromCents(d), FromInt(100)))
    ELSE SAdd(Signed(FALSE, x), SFromCents(d))

\* x * (1 + d / 100.0) in percent mode, x + d in dollar mode
SimAdjust(mode, x, d) ==
    IF mode = "Percent change"
    THEN SMul(Signed(FALSE, x),
              SAdd(Signed(FALSE, FromInt(1)), SDiv(SFromCents(d), FromInt(100))))
    ELSE SAdd(Signed(FALSE, x), SFromCents(d))

\* One row of sim_df
SimRow(rpv, lcv, vvi, rf, lf) ==
    [NRPV |-> FormatCents(rpv), LCV |-> FormatCents(lcv), VVI |-> FormatTenths(vvi),
     RF |-> FormatTenths(rf), LF |-> FormatTenths(lf)]

\* The simulated scores and the table sim_df, from the clamped simulated
\* values
SimTable(r, w, sim_rpv, sim_lcv, sim_rf, sim_lf, sim_vvi) ==
    [sim_rpv |-> sim_rpv, sim_lcv |-> sim_lcv,
     sim_rf_score |-> sim_rf, sim_lf_score |-> sim_lf, sim_vvi_score |-> sim_vvi,
     Current |-> SimRow(r.rpv, r.lcv, r.vvi_score, r.rf_score, r.lf_score),
     Simulated |-> SimRow(sim_rpv, sim_lcv, sim_vvi, sim_rf, sim_lf)]

SimScores(r, rt, lt, w, sim_rpv, sim_lcv) ==
    SimTable(r, w, sim_rpv, sim_lcv,
             FMul(FDiv(sim_rpv, rt), FromInt(100)),
             FMul(FDiv(lt, sim_lcv), FromInt(100)),
             FMul(FDiv(FDiv(sim_rpv, sim_lcv), VviTarget(rt, lt)), FromInt(100)))

\* What the simulator block computes and shows, on the rendered results r,
\* the targets rt and lt and the widget values w
SimulatorBlock(r, rt, lt, w) ==
    SimScores(r, rt, lt, w,
              SimClamp(SimAdjust(w.mode, r.rpv, w.nrpv_delta)),
              SimClamp(SimAdjust(w.mode, r.lcv, w.lcv_delta)))

\* sim_rf_raw = sim_rpv / rt, the first division of the block, raises
\* ZeroDivisionError for a revenue target of 0
SimRaises(r, rt, w) ==
    FDiv(SimClamp(SimAdjust(w.mode, r.rpv, w.nrpv_delta)), rt).exc

(***************************************************************************)
(* The script below the results: "Save this run", the portfolio block and  *)
(* "Start a New Assessment"; and one run of the whole script.              *)
(***************************************************************************)
\* f"Clinic {k}"; a name is the sequence of the pieces it is put together from
ClinicName(k) == <<"Clinic ", k>>

\* default_name = f"Clinic {len(st.session_state.runs) + 1}"
DefaultName(rs) == ClinicName(Len(rs) + 1)

\* A page on which the script did not reach "Save this run"
BlankPage ==
    [results |-> FALSE, default_name |-> <<>>, run_name |-> <<>>, saved |-> <<>>,
     portfolio |-> FALSE, cleared |-> FALSE, buttons |-> {}]

\* The value of the text input "Name this clinic/run:": what the user typed in
\* it (typed, <<>> for nothing new), else what it held on the last page when
\* it was there with the same default, else its default.
RunName(last, rs, typed) ==
    IF typed # <<>> THEN typed
    ELSE IF last.results /\ last.default_name = DefaultName(rs) THEN last.run_name
    ELSE DefaultName(rs)

\* Mutant: the section appends the run it reports as saved
SaveRun_appending(rs, run_name, r) ==
    Append(rs, [name |-> run_name, VVI |-> r.vvi_score, RF |-> r.rf_score,
                LF |-> r.lf_score, scenario |-> r.scenario_text])

\* st.session_state.runs after the section "Save this run", which names the
\* run and reports st.success(f"Saved: {run_name}")
SaveRun(rs, run_name, r) == rs

\* The portfolio block: the table and the "Reset portfolio" button are there
\* when the list is not empty; the clicked button empties the list.
PortfolioBlock(rs, click) ==
    IF rs # <<>>
    THEN [runs |-> IF click = "Reset portfolio" THEN <<>> ELSE rs,
          portfolio |-> TRUE, cleared |-> click = "Reset portfolio",
          buttons |-> {"Reset portfolio"}]
    ELSE [runs |-> rs, portfolio |-> FALSE, cleared |-> FALSE, buttons |-> {}]

\* The buttons of a rendered results page besides the portfolio's
ResultButtons ==
    {"Ask AI Coach", "Download Executive Summary (PDF)", "Start a New Assessment"}

\* Mutant: assessment_ready lasts for the run of the submitted form only
Finish_transient(r, name, dflt, pb, click) ==
    /\ runs' = pb.runs
    /\ IF click = "Start a New Assessment"
       THEN /\ assessment_ready' = FALSE
            /\ res' = NotRun
            /\ page' = BlankPage
       ELSE /\ assessment_ready' = (click = "Run Assessment")
            /\ res' = r
            /\ page' = [results |-> TRUE, default_name |-> dflt, run_name |-> name,
                        saved |-> name, portfolio |-> pb.portfolio,
                        cleared |-> pb.cleared,
                        buttons |-> ResultButtons \cup pb.buttons]

\* Mutant: "Start a New Assessment" reruns the script without resetting
Finish_no_reset(r, name, dflt, pb, click) ==
    /\ runs' = pb.runs
    /\ assessment_ready' = TRUE
    /\ res' = r
    /\ page' = [results |-> TRUE, default_name |-> dflt, run_name |-> name,
                saved |-> name, portfolio |-> pb.portfolio,
                cleared |-> pb.cleared,
                buttons |-> ResultButtons \cup pb.buttons]

\* The end of the script run, from the portfolio block on.  "Start a New
\* Assessment" calls reset_assessment: assessment_ready = False and
\* st.rerun(), and the script run that follows shows the form alone.
Finish(r, name, dflt, pb, click) ==
    /\ runs' = pb.runs
    /\ IF click = "Start a New Assessment"
       THEN /\ assessment_ready' = FALSE
            /\ res' = NotRun
            /\ page' = BlankPage
       ELSE /\ assessment_ready' = TRUE
            /\ res' = r
            /\ page' = [results |-> TRUE, default_name |-> dflt, run_name |-> name,
                        saved |-> name, portfolio |-> pb.portfolio,
                        cleared |-> pb.cleared,
                        buttons |-> ResultButtons \cup pb.buttons]

\* "Save this run" and what follows it, for the run named name
Save(r, name, click) ==
    Finish(r, name, DefaultName(runs), PortfolioBlock(SaveRun(runs, name, r), click), click)

\* Mutant: the simulated per-visit values overwrite the actual ones
Simulate_overwriting(r, name, click, w, raised) ==
    IF raised
    THEN /\ assessment_ready' = TRUE
         /\ res' = r
         /\ page' = BlankPage
         /\ runs' = runs
         /\ sim' = ShownSim(w, TRUE)
    ELSE /\ Save([r EXCEPT !.rpv = SimClamp(SimAdjust(w.mode, r.rpv, w.nrpv_delta)),
                           !.lcv = SimClamp(SimAdjust(w.mode, r.lcv, w.lcv_delta))],
                 name, click)
         /\ sim' = IF click = "Start a New Assessment" THEN NoSim
                   ELSE ShownSim(w, FALSE)

\* The script from the impact simulator on, with the widget values w: an
\* exception raised in the block ends the script run, and the run that
\* "Start a New Assessment" starts does not show the simulator.
Simulate(r, name, click, w, raised) ==
    IF raised
    THEN /\ assessment_ready' = TRUE
         /\ res' = r
         /\ page' = BlankPage
         /\ runs' = runs
         /\ sim' = ShownSim(w, TRUE)
    ELSE /\ Save(r, name, click)
         /\ sim' = IF click = "Start a New Assessment" THEN NoSim
                   ELSE ShownSim(w, FALSE)

\* The script from the results block on, r being what the block computed on
\* the widget values i.  st.stop() and an exception end the script run there.
Render(i, r, click, typed, w) ==
    /\ evals' = evals \cup {[inputs |-> i, res |-> r]}
    /\ IF r.outcome = "rendered"
       THEN Simulate(r, RunName(page, runs, typed), click, w,
                     SimRaises(r, FromCents(i[4]), w))
       ELSE /\ assessment_ready' = TRUE
            /\ res' = r
            /\ page' = BlankPage
            /\ runs' = runs
            /\ sim' = NoSim

\* One run of the script on the widget values i, with assessment_ready as
\* it is after "if submitted"; click is the button whose click started the
\* run ("" for none), typed the name typed into the text input and w the
\* values of the simulator's widgets.
RunScript(i, ready, click, typed, w) ==
    IF ready
    THEN Render(i, ResultsBlock(i[1], i[2], i[3], i[4], i[5]), click, typed, w)
    ELSE /\ assessment_ready' = FALSE
         /\ res' = NotRun
         /\ page' = BlankPage
         /\ sim' = NoSim
         /\ UNCHANGED <<runs, evals>>

(***************************************************************************)
(* Spec: one run of the results block on the session's widget values       *)
(***************************************************************************)
Init ==
    /\ SCENARIO_LOOKUP = ScenarioLookupLiteral
    /\ INSIGHT_PACKS = InsightPacksLiteral
    /\ \E i \in Inputs :
          /\ visits_input = i[1]
          /\ net_rev_input = i[2]
          /\ labor_cost_input = i[3]
          /\ rev_target_input = i[4]
          /\ lab_target_input = i[5]
    /\ res = NotRun
    /\ call = NoCall
    /\ runs = <<>>
    /\ assessment_ready = FALSE
    /\ page = BlankPage
    /\ evals = {}
    /\ sim = NoSim

\* "Run Assessment": the form is submitted and the script runs to its end
RunAssessment ==
    /\ res = NotRun
    /\ RunScript(WidgetValues, TRUE, "Run Assessment", <<>>, SimWidgets(sim))
    /\ UNCHANGED <<SCENARIO_LOOKUP, INSIGHT_PACKS, visits_input, net_rev_input,
                   labor_cost_input, rev_target_input, lab_target_input, call>>

Next == RunAssessment

Spec == Init /\ [][Next]_vars

(***************************************************************************)
(* SpecConfig: the results block run against a configuration whose tables  *)
(* may lack entries                                                        *)
(***************************************************************************)
InitConfig ==
    /\ \E c \in Configs :
          /\ SCENARIO_LOOKUP = c[1]
          /\ INSIGHT_PACKS = c[2]
    /\ \E i \in ConfigInputs :
          /\ visits_input = i[1]
          /\ net_rev_input = i[2]
          /\ labor_cost_input = i[3]
          /\ rev_target_input = i[4]
          /\ lab_target_input = i[5]
    /\ res = NotRun
    /\ call = NoCall
    /\ runs = <<>>
    /\ assessment_ready = FALSE
    /\ page = BlankPage
    /\ evals = {}
    /\ sim = NoSim

SpecConfig == InitConfig /\ [][Next]_vars

(***************************************************************************)
(* SpecTier: tier_from_score called on a score                             *)
(***************************************************************************)
InitTier ==
    /\ SCENARIO_LOOKUP = ScenarioLookupLiteral
    /\ INSIGHT_PACKS = InsightPacksLiteral
    /\ visits_input = 500
    /\ net_rev_input = 10000000
    /\ labor_cost_input = 6500000
    /\ rev_target_input = 14000
    /\ lab_target_input = 8500
    /\ res = NotRun
    /\ \E c \in TierScores :
          call = [fn |-> "tier_from_score", score |-> c, ret |-> NoRet]
    /\ runs = <<>>
    /\ assessment_ready = FALSE
    /\ page = BlankPage
    /\ evals = {}
    /\ sim = NoSim

CallTier ==
    /\ call.fn = "tier_from_score"
    /\ call.ret = NoRet
    /\ call' = [call EXCEPT !.ret = tier_from_score(FromCents(call.score))]
    /\ UNCHANGED <<SCENARIO_LOOKUP, INSIGHT_PACKS, visits_input, net_rev_input,
                   labor_cost_input, rev_target_input, lab_target_input, res,
                   runs, assessment_ready, page, evals, sim>>

NextTier == CallTier

SpecTier == InitTier /\ [][NextTier]_vars

(***************************************************************************)
(* SpecSession: a session of the app, from its first script run on: the    *)
(* form is submitted with new values, buttons of the rendered page are     *)
(* clicked, the run is renamed.  The simulator's expander is left as it    *)
(* is first rendered; SpecSim below is the session in which it is used.    *)
(***************************************************************************)
\* The form's defaults
DefaultInputs == <<500, 10000000, 6500000, 14000, 8500>>

\* What the form is submitted with: the defaults; a clinic with the scores
\* of the defaults and half their labor share of revenue; a clinic 3.75
\* below its revenue target per visit (scores 95.0, 100.0, 95.0) and the
\* same per-visit values from two visits; and a clinic 3.78 below the same
\* target with the same displayed revenue and labor scores (95.0, 100.0).
SessionInputs ==
    { DefaultInputs,
      <<500, 20000000, 6500000, 28000, 8500>>,
      <<1, 7125, 2500, 7500, 2500>>,
      <<2, 14250, 5000, 7500, 2500>>,
      <<1, 7122, 2501, 7500, 2500>> }

\* Names typed into "Name this clinic/run:"
TypedNames == {<<"North Clinic">>}

InitSession ==
    /\ SCENARIO_LOOKUP = ScenarioLookupLiteral
    /\ INSIGHT_PACKS = InsightPacksLiteral
    /\ visits_input = DefaultInputs[1]
    /\ net_rev_input = DefaultInputs[2]
    /\ labor_cost_input = DefaultInputs[3]
    /\ rev_target_input = DefaultInputs[4]
    /\ lab_target_input = DefaultInputs[5]
    /\ res = NotRun
    /\ call = NoCall
    /\ runs = <<>>
    /\ assessment_ready = FALSE
    /\ page = BlankPage
    /\ evals = {}
    /\ sim = NoSim

\* The form is submitted with the values i: the widgets take them and the
\* script runs with submitted = True
SubmitForm ==
    \E i \in SessionInputs :
        /\ visits_input' = i[1]
        /\ net_rev_input' = i[2]
        /\ labor_cost_input' = i[3]
        /\ rev_target_input' = i[4]
        /\ lab_target_input' = i[5]
        /\ RunScript(i, TRUE, "Run Assessment", <<>>, SimWidgets(sim))
        /\ UNCHANGED <<SCENARIO_LOOKUP, INSIGHT_PACKS, call>>

\* A button of the page is clicked: the script runs with that button True
ClickButton ==
    \E b \in page.buttons :
        /\ RunScript(WidgetValues, assessment_ready, b, <<>>, SimWidgets(sim))
        /\ UNCHANGED <<SCENARIO_LOOKUP, INSIGHT_PACKS, visits_input, net_rev_input,
                       labor_cost_input, rev_target_input, lab_target_input, call>>

\* The deltas tried in the simulator, in hundredths: the defaults, no change,
\* a cut of all of the value in percent mode and a cut beyond the value
NrpvDeltas == {500, 0, -10000, -100000}

LcvDeltas == {-500, 0, -100000}

\* What one change of one widget of the simulator can make of its widgets: the
\* other mode, whose number inputs are rendered anew with their defaults, or
\* another value in one of the two number inputs
SimChanges(s) ==
    {[SimDefaults EXCEPT !.mode = m] : m \in SimModes \ {s.mode}}
    \cup {[SimWidgets(s) EXCEPT !.nrpv_delta = d] : d \in NrpvDeltas \ {s.nrpv_delta}}
    \cup {[SimWidgets(s) EXCEPT !.lcv_delta = d] : d \in LcvDeltas \ {s.lcv_delta}}

\* A widget of the impact simulator is changed: the script runs again
UseSimulator ==
    /\ sim.shown
    /\ \E w \in SimChanges(sim) :
          RunScript(WidgetValues, assessment_ready, "", <<>>, w)
    /\ UNCHANGED <<SCENARIO_LOOKUP, INSIGHT_PACKS, visits_input, net_rev_input,
                   labor_cost_input, rev_target_input, lab_target_input, call>>

\* Another name is typed into "Name this clinic/run:": the script runs again
RenameRun ==
    /\ page.results
    /\ \E n \in (TypedNames \cup {page.default_name}) \ {page.run_name} :
          RunScript(WidgetValues, assessment_ready, "", n, SimWidgets(sim))
    /\ UNCHANGED <<SCENARIO_LOOKUP, INSIGHT_PACKS, visits_input, net_rev_input,
                   labor_cost_input, rev_target_input, lab_target_input, call>>

NextSession == SubmitForm \/ ClickButton \/ RenameRun

SpecSession == InitSession /\ [][NextSession]_vars

(***************************************************************************)
(* SpecSim: a session in which the impact simulator is used: the form is   *)
(* submitted, the simulator's widgets are changed one at a time, buttons   *)
(* of the rendered page are clicked.                                       *)
(***************************************************************************)
\* What the form is submitted with: the defaults; a clinic whose revenue and
\* labor cost per visit are both a fifth of a cent; and a clinic whose
\* factor scores are both 99.96
SimInputs ==
    { DefaultInputs,
      <<500, 100, 100, 14000, 8500>>,
      <<1, 2499, 2501, 2500, 2500>> }

SubmitSim ==
    \E i \in SimInputs :
        /\ visits_input' = i[1]
        /\ net_rev_input' = i[2]
        /\ labor_cost_input' = i[3]
        /\ rev_target_input' = i[4]
        /\ lab_target_input' = i[5]
        /\ RunScript(i, TRUE, "Run Assessment", <<>>, SimWidgets(sim))
        /\ UNCHANGED <<SCENARIO_LOOKUP, INSIGHT_PACKS, call>>

NextSim == SubmitSim \/ UseSimulator \/ ClickButton

SpecSim == InitSession /\ [][NextSim]_vars

(***************************************************************************)
(* The AI Coach.  In the texts below the right single quotation mark of    *)
(* the source (U+2019) is written {U+2019} and its grave accent {U+0060}.  *)
(***************************************************************************)
\* ALLOWED_QUESTIONS of ai_coach_answer
ALLOWED_QUESTIONS ==
    << "Explain this scenario to a CFO who is new to VVI.",
       "What should I tell frontline managers in tomorrow{U+2019}s huddle?",
       "If our LF improved to 80, what would that do to VVI?",
       "Summarize this clinic in 3 bullets.",
       "Why did we land in this scenario?",
       "What early indicators should we monitor based on this scenario?",
       "How do I build effective front-desk POS scripting?",
       "What are practical ways to improve morale?",
       "What steps can reduce burnout for MAs and front-desk staff?",
       "Convert this scenario into a 1-minute message for staff." >>

\* The options of the selectbox "Select a question:"
CoachOptions ==
    << "Explain this scenario to a CFO who is new to VVI.",
       "What should I tell frontline managers in tomorrow{U+2019}s huddle?",
       "If our LF improved to 80, what would that do to VVI?",
       "Summarize this clinic in 3 bullets.",
       "Why did we land in this scenario?",
       "What early indicators should we monitor based on this scenario?",
       "How do I build effective front-desk POS scripting?",
       "What are practical ways to improve morale?",
       "What steps can reduce burnout for MAs and front-desk staff?",
       "Convert this scenario into a 1-minute message for staff." >>

NoSdkText ==
    "OpenAI SDK not installed. Add {U+0060}openai{U+0060} to requirements.txt to enable the AI Coach."

NoKeyText ==
    "Missing {U+0060}OPENAI_API_KEY{U+0060} in Streamlit Secrets. Add it to enable the AI Coach."

RefusalText ==
    "I{U+2019}m only configured to answer the specific questions in the dropdown above."

\* What client.chat.completions.create does: it returns an answer or raises
ApiOutcomes == {"answer", "raises"}

\* The messages of a request to the model API; <<>> when none is sent
NoRequest == <<>>

CoachRequest(selected_question) ==
    <<[model |-> "gpt-4o-mini", system |-> "AI_COACH_SYSTEM_PROMPT",
       selected_question |-> selected_question]>>

\* Mutant: every question is sent to the model
ai_coach_answer_unlisted(selected_question, sdk, key, api) ==
    IF ~sdk THEN [ok |-> FALSE, md |-> NoSdkText, request |-> NoRequest]
    ELSE IF ~key THEN [ok |-> FALSE, md |-> NoKeyText, request |-> NoRequest]
    ELSE IF api = "answer"
    THEN [ok |-> TRUE, md |-> "resp.choices[0].message.content.strip()",
          request |-> CoachRequest(selected_question)]
    ELSE [ok |-> FALSE, md |-> "AI Coach call failed: {e}",
          request |-> CoachRequest(selected_question)]

\* ai_coach_answer: (ok, markdown_text) and the request made, for the selected
\* question; sdk says the OpenAI SDK was imported, key that the secret
\* OPENAI_API_KEY is there, api what the API call does if it is made
ai_coach_answer(selected_question, sdk, key, api) ==
    IF ~sdk THEN [ok |-> FALSE, md |-> NoSdkText, request |-> NoRequest]
    ELSE IF ~key THEN [ok |-> FALSE, md |-> NoKeyText, request |-> NoRequest]
    ELSE IF selected_question \notin {ALLOWED_QUESTIONS[k] : k \in DOMAIN ALLOWED_QUESTIONS}
    THEN [ok |-> FALSE, md |-> RefusalText, request |-> NoRequest]
    ELSE IF api = "answer"
    THEN [ok |-> TRUE, md |-> "resp.choices[0].message.content.strip()",
          request |-> CoachRequest(selected_question)]
    ELSE [ok |-> FALSE, md |-> "AI Coach call failed: {e}",
          request |-> CoachRequest(selected_question)]

(***************************************************************************)
(* SpecCoach: ai_coach_answer called, by the button "Ask AI Coach" with    *)
(* the selectbox's question or directly with any question                  *)
(***************************************************************************)
\* Questions that are not options of the selectbox: the second option typed
\* with an apostrophe, the first without its full stop and in lower case, a
\* question of the user's own, and no question
OtherQuestions ==
    { "What should I tell frontline managers in tomorrow's huddle?",
      "Explain this scenario to a CFO who is new to VVI",
      "explain this scenario to a cfo who is new to vvi.",
      "Which staff should we let go?",
      "" }

CoachCalls ==
    {[fn |-> "ai_coach_answer", via |-> "Ask AI Coach", selected_question |-> CoachOptions[k],
      sdk |-> sdk, key |-> key, returned |-> FALSE, ok |-> FALSE, md |-> "",
      request |-> NoRequest] : k \in DOMAIN CoachOptions, sdk \in BOOLEAN, key \in BOOLEAN}
    \cup
    {[fn |-> "ai_coach_answer", via |-> "call", selected_question |-> q,
      sdk |-> sdk, key |-> key, returned |-> FALSE, ok |-> FALSE, md |-> "",
      request |-> NoRequest] :
        q \in OtherQuestions \cup {CoachOptions[k] : k \in DOMAIN CoachOptions},
        sdk \in BOOLEAN, key \in BOOLEAN}

InitCoach ==
    /\ SCENARIO_LOOKUP = ScenarioLookupLiteral
    /\ INSIGHT_PACKS = InsightPacksLiteral
    /\ visits_input = DefaultInputs[1]
    /\ net_rev_input = DefaultInputs[2]
    /\ labor_cost_input = DefaultInputs[3]
    /\ rev_target_input = DefaultInputs[4]
    /\ lab_target_input = DefaultInputs[5]
    /\ res = NotRun
    /\ call \in CoachCalls
    /\ runs = <<>>
    /\ assessment_ready = FALSE
    /\ page = BlankPage
    /\ evals = {}
    /\ sim = NoSim

CallCoach ==
    /\ call.fn = "ai_coach_answer"
    /\ ~call.returned
    /\ \E api \in ApiOutcomes :
          call' = [returned |-> TRUE]
                  @@ ai_coach_answer(call.selected_question, call.sdk, call.key, api)
                  @@ call
    /\ UNCHANGED <<SCENARIO_LOOKUP, INSIGHT_PACKS, visits_input, net_rev_input,
                   labor_cost_input, rev_target_input, lab_target_input, res,
                   runs, assessment_ready, page, evals, sim>>

NextCoach == CallCoach

SpecCoach == InitCoach /\ [][NextCoach]_vars

(***************************************************************************)
(* Exact comparisons on float values, used to state the properties         *)
(***************************************************************************)
\* -1, 0 or 1 as x < p / q, x = p / q, x > p / q, exactly (0 < q < 2^15)
FCmpRat(x, p, q) ==
    IF x.e >= 0
    THEN BCmp(BShl(BMulSmall(x.m, q), x.e), BFromInt(p))
    ELSE BCmp(BMulSmall(x.m, q), BShl(BFromInt(p), -x.e))

\* |x - y| <= y * 2^(-k), exactly
FClose(x, y, k) ==
    LET emin == IF x.e < y.e THEN x.e ELSE y.e
        X    == BShl(x.m, x.e - emin)
        Y    == BShl(y.m, y.e - emin)
        D    == IF BCmp(X, Y) >= 0 THEN BSub(X, Y) ELSE BSub(Y, X)
    IN  BCmp(BShl(D, k), Y) <= 0

Rendered == res.outcome = "rendered"

\* The documented half-open bands, on a score given in hundredths
BandOfHundredths(c) ==
    IF c >= 10000 THEN "Excellent"
    ELSE IF c >= 9500 THEN "Stable"
    ELSE IF c >= 9000 THEN "At Risk"
    ELSE "Critical"

\* The bands a raw score falls in once it is rounded to one decimal:
\* the cut points are 99.95, 94.95 and 89.95
BandOfRounded(x) ==
    IF FCmpRat(x, 1999, 20) >= 0 THEN "Excellent"
    ELSE IF FCmpRat(x, 1899, 20) >= 0 THEN "Stable"
    ELSE IF FCmpRat(x, 1799, 20) >= 0 THEN "At Risk"
    ELSE "Critical"

(***************************************************************************)
(* C1: tier_from_score returns exactly one of the four tiers for every     *)
(* score, by the half-open bands: >= 100 Excellent, [95, 100) Stable,      *)
(* [90, 95) At Risk, < 90 Critical (89.99 Critical, 90.00 and 94.99 At     *)
(* Risk, 95.00 and 99.99 Stable, 100.00 Excellent).                        *)
(***************************************************************************)
C1_TierBands ==
    (call.fn = "tier_from_score" /\ call.ret # NoRet) =>
        /\ call.ret \in Tiers
        /\ call.ret = BandOfHundredths(call.score)

C1_Witness ==
    /\ call.fn = "tier_from_score"
    /\ call.score = 9499
    /\ call.ret = "At Risk"

(***************************************************************************)
(* C2 as stated: the three tiers are tier_from_score of the unrounded      *)
(* scores (a raw score strictly between 99.95 and 100 is Stable).          *)
(***************************************************************************)
C2_TiersOfUnroundedScores ==
    Rendered =>
        /\ res.rf_t = tier_from_score(res.rf_score_raw)
        /\ res.lf_t = tier_from_score(res.lf_score_raw)
        /\ res.vvi_t = tier_from_score(res.vvi_score_raw)

(***************************************************************************)
(* C2 as amended: the three tiers are the tiers of the scores rounded to   *)
(* one decimal, so that a raw score of at least 99.95 is Excellent, one in *)
(* [94.95, 99.95) Stable, one in [89.95, 94.95) At Risk and one below      *)
(* 89.95 Critical.                                                         *)
(***************************************************************************)
C2_TiersOfRoundedScores ==
    Rendered =>
        /\ res.rf_t = BandOfRounded(res.rf_score_raw)
        /\ res.lf_t = BandOfRounded(res.lf_score_raw)
        /\ res.vvi_t = BandOfRounded(res.vvi_score_raw)

\* a revenue score strictly between 99.95 and 100, classified
C2_Witness ==
    /\ Rendered
    /\ FCmpRat(res.rf_score_raw, 1999, 20) > 0
    /\ FCmpRat(res.rf_score_raw, 100, 1) < 0
    /\ res.rf_t = "Excellent"

(***************************************************************************)
(* C3: when visits, net revenue or labor cost is zero or negative, the     *)
(* run ends at the input check: no metric, score, tier or scenario is      *)
(* computed and no division by the zero value takes place.                 *)
(***************************************************************************)
C3_InvalidInputStops ==
    (res # NotRun /\ (visits_input <= 0 \/ net_rev_input <= 0 \/ labor_cost_input <= 0))
        => res = Stopped

C3_Witness ==
    /\ visits_input = 0
    /\ net_rev_input > 0
    /\ labor_cost_input > 0
    /\ res = Stopped

C5_AllPairsResolve ==
    /\ \A rf_t \in Tiers, lf_t \in Tiers :
          LET got == get_insight_pack_for_tiers(rf_t, lf_t)
          IN  /\ got.key # NoKey
              /\ got.pack # NoPack
              /\ got.error = ""
              /\ got.pack.label # ""
              /\ got.pack.executive_narrative # ""
              /\ got.pack.do_tomorrow # <<>>
    /\ Rendered =>
          /\ res.rf_t \in Tiers
          /\ res.lf_t \in Tiers
          /\ res.scenario_key # NoKey
          /\ res.insight_pack # NoPack
          /\ res.error = ""

C5_Witness ==
    /\ Rendered
    /\ res.rf_t = "At Risk"
    /\ res.lf_t = "Stable"
    /\ res.scenario_key = "scenario_10"
    /\ res.insight_pack.id = 10

(***************************************************************************)
(* C6 as stated: with the mapping or the pack of the computed tier pair    *)
(* missing, the run produces no scenario result.                           *)
(***************************************************************************)
C6_NoResultWithoutPack == Rendered => res.insight_pack # NoPack

(***************************************************************************)
(* C6 as amended: with the mapping or the pack of the computed tier pair   *)
(* missing, the run shows an error message and goes on with a substitute:  *)
(* the diagnosis text "<rf tier> Revenue / <lf tier> Labor" and empty      *)
(* immediate and extended action lists.                                    *)
(***************************************************************************)
C6_FallbackWithoutPack ==
    Rendered =>
        LET pair      == <<res.rf_t, res.lf_t>>
            unmapped  == pair \notin DOMAIN SCENARIO_LOOKUP
            unpacked  == ~unmapped /\ SCENARIO_LOOKUP[pair] \notin DOMAIN INSIGHT_PACKS
        IN  /\ (res.insight_pack = NoPack) <=> (unmapped \/ unpacked)
            /\ (res.scenario_key = NoKey) <=> unmapped
            /\ (unmapped \/ unpacked) =>
                  /\ res.error # ""
                  /\ res.scenario_text = <<res.rf_t, " Revenue / ", res.lf_t, " Labor">>
                  /\ res.top3_actions = <<>>
                  /\ res.extended_actions = <<>>

C6_Witness ==
    /\ Rendered
    /\ res.scenario_key # NoKey
    /\ res.insight_pack = NoPack
    /\ res.top3_actions = <<>>

\* 100 * rf_raw * lf_raw, as Python evaluates it
ProductForm == FMul(FMul(FromInt(100), res.rf_raw), res.lf_raw)

ValidInputs ==
    /\ visits_input > 0
    /\ net_rev_input > 0
    /\ labor_cost_input > 0
    /\ rev_target_input > 0
    /\ lab_target_input > 0

(***************************************************************************)
(* C7 as stated: for valid inputs the composite score equals               *)
(* 100 * rf_raw * lf_raw.                                                  *)
(***************************************************************************)
C7_CompositeEqualsProduct ==
    (Rendered /\ ValidInputs) => res.vvi_score_raw = ProductForm

(***************************************************************************)
(* C7 as amended: for valid inputs the composite score is                  *)
(* (rpv / lcv) / (rt / lt) * 100 in float arithmetic, and it equals        *)
(* 100 * rf_raw * lf_raw up to floating-point rounding: the two differ by  *)
(* at most 2^-49 of their value.                                           *)
(***************************************************************************)
C7_CompositeCloseToProduct ==
    (Rendered /\ ValidInputs) =>
        /\ res.vvi_score_raw =
              FMul(FDiv(FDiv(res.rpv, res.lcv),
                        FDiv(FromCents(rev_target_input), FromCents(lab_target_input))),
                   FromInt(100))
        /\ FClose(res.vvi_score_raw, ProductForm, 49)

\* a run whose composite score is not the product form to the last bit
C7_Witness ==
    /\ Rendered
    /\ ValidInputs
    /\ res.vvi_score_raw # ProductForm
    /\ FClose(res.vvi_score_raw, ProductForm, 49)

(***************************************************************************)
(* C8 as stated: rpv * visits == net_rev and lcv * visits == labor.        *)
(***************************************************************************)
C8_PerVisitInvertsExactly ==
    Rendered =>
        /\ FMul(res.rpv, FromInt(visits_input)) = FromCents(net_rev_input)
        /\ FMul(res.lcv, FromInt(visits_input)) = FromCents(labor_cost_input)

(***************************************************************************)
(* C8 as amended: rpv * visits equals net_rev, and lcv * visits equals     *)
(* labor, up to floating-point rounding: they differ by at most 2^-52 of   *)
(* the total (one unit in its last place).                                 *)
(***************************************************************************)
C8_PerVisitInvertsClosely ==
    Rendered =>
        /\ FClose(FMul(res.rpv, FromInt(visits_input)), FromCents(net_rev_input), 52)
        /\ FClose(FMul(res.lcv, FromInt(visits_input)), FromCents(labor_cost_input), 52)

\* 29.00 / 7 * 7 is not 29.00
C8_Witness ==
    /\ Rendered
    /\ visits_input = 7
    /\ net_rev_input = 2900
    /\ FMul(res.rpv, FromInt(visits_input)) # FromCents(net_rev_input)

(***************************************************************************)
(* C9: visits 2400, net revenue 480000, labor 312000, targets 200 and 130  *)
(* give rpv 200, lcv 130, RF score 100 and LF score 100, both tiers        *)
(* Excellent, and the (Excellent, Excellent) scenario.                     *)
(***************************************************************************)
C9_ExampleAtBenchmark ==
    (res # NotRun /\ WidgetValues = <<2400, 48000000, 31200000, 20000, 13000>>) =>
        /\ Rendered
        /\ res.rpv = FromInt(200)
        /\ res.lcv = FromInt(130)
        /\ res.rf_raw = FromInt(1)
        /\ res.lf_raw = FromInt(1)
        /\ res.rf_score_raw = FromInt(100)
        /\ res.lf_score_raw = FromInt(100)
        /\ res.rf_score = FromInt(100)
        /\ res.lf_score = FromInt(100)
        /\ res.rf_t = "Excellent"
        /\ res.lf_t = "Excellent"
        /\ res.scenario_key = "scenario_01"
        /\ res.insight_pack.rf_tier = "Excellent"
        /\ res.insight_pack.lf_tier = "Excellent"

C9_Witness ==
    /\ Rendered
    /\ WidgetValues = <<2400, 48000000, 31200000, 20000, 13000>>
    /\ res.scenario_key = "scenario_01"

(***************************************************************************)
(* C10: the default form values (visits 500, net revenue 100000, labor     *)
(* 65000, targets 140 and 85) give rpv 200 and lcv 130, revenue tier       *)
(* Excellent on a score of 142.86, labor tier Critical on a score of       *)
(* 65.38, and the (Excellent, Critical) record, scenario 4, "High Revenue  *)
(* + Severe Labor Inefficiency".                                           *)
(***************************************************************************)
C10_ExampleDefaultForm ==
    (res # NotRun /\ WidgetValues = <<500, 10000000, 6500000, 14000, 8500>>) =>
        /\ Rendered
        /\ res.rpv = FromInt(200)
        /\ res.lcv = FromInt(130)
        /\ FCmpRat(res.rf_score_raw, 28571, 200) >= 0
        /\ FCmpRat(res.rf_score_raw, 28573, 200) < 0
        /\ FCmpRat(res.lf_score_raw, 13075, 200) >= 0
        /\ FCmpRat(res.lf_score_raw, 13077, 200) < 0
        /\ res.rf_score = FromCents(14290)
        /\ res.lf_score = FromCents(6540)
        /\ res.rf_t = "Excellent"
        /\ res.lf_t = "Critical"
        /\ res.scenario_key = "scenario_04"
        /\ res.insight_pack.id = 4
        /\ res.insight_pack.rf_tier = "Excellent"
        /\ res.insight_pack.lf_tier = "Critical"
        /\ res.insight_pack.label = "High Revenue + Severe Labor Inefficiency"

C10_Witness ==
    /\ Rendered
    /\ WidgetValues = <<500, 10000000, 6500000, 14000, 8500>>
    /\ res.scenario_key = "scenario_04"

(***************************************************************************)
(* Statements about the action lists                                       *)
(***************************************************************************)
Range(s) == {s[k] : k \in 1..Len(s)}

HasPack == Rendered /\ res.insight_pack # NoPack

\* The Insight Records whose own tier fields are the computed tiers
PacksOfTiers ==
    {INSIGHT_PACKS[k] : k \in {k \in DOMAIN INSIGHT_PACKS :
        /\ INSIGHT_PACKS[k].rf_tier = res.rf_t
        /\ INSIGHT_PACKS[k].lf_tier = res.lf_t}}

\* Every action text of the RF / LF tier bundles
BundleTexts ==
    UNION {Range(RF_ACTIONS[t]) \cup Range(LF_ACTIONS[t]) : t \in Tiers}

SustainAction == "Sustain current performance"

\* The first three of the revenue tier's actions followed by the labor
\* tier's, a list shorter than three filled up with the generic action
Top3OfBundles(rf_t, lf_t) ==
    LET both == RF_ACTIONS[rf_t] \o LF_ACTIONS[lf_t]
    IN  [k \in 1..3 |-> IF k <= Len(both) THEN both[k] ELSE SustainAction]

(***************************************************************************)
(* C11 as stated: for every resolved scenario the Top 3 list has exactly   *)
(* 3 entries, the actions of the computed revenue tier first and then      *)
(* those of the computed labor tier, filled up with the generic action.    *)
(***************************************************************************)
C11_Top3FromTierBundles ==
    HasPack =>
        /\ Len(res.top3_actions) = 3
        /\ res.top3_actions = Top3OfBundles(res.rf_t, res.lf_t)

(***************************************************************************)
(* C11 amended: for every resolved scenario the Top 3 list has exactly 3   *)
(* entries, the three do-tomorrow actions of the Insight Record of the     *)
(* computed tier pair (the first three of its do-tomorrow actions          *)
(* followed by its 7-day actions); none of them is an action of the RF /   *)
(* LF tier bundles or the generic action.                                  *)
(***************************************************************************)
C11_Top3FromPack ==
    HasPack =>
        /\ Len(res.top3_actions) = 3
        /\ \E p \in PacksOfTiers :
              /\ res.top3_actions = p.do_tomorrow
              /\ \A k \in 1..3 :
                    res.top3_actions[k] = (p.do_tomorrow \o p.next_7_days)[k]
        /\ Range(res.top3_actions) \cap (BundleTexts \cup {SustainAction}) = {}

C11_Witness ==
    /\ HasPack
    /\ res.rf_t = "Critical"
    /\ res.lf_t = "Excellent"
    /\ res.top3_actions =
          <<"s13.do_tomorrow.1", "s13.do_tomorrow.2", "s13.do_tomorrow.3">>

\* rt - rpv <= p / q, exactly (0 < q < 2^15)
GapAtMost(rt, rpv, p, q) ==
    LET e1   == IF rt.e < rpv.e THEN rt.e ELSE rpv.e
        emin == IF e1 < 0 THEN e1 ELSE 0
        X    == BShl(rt.m, rt.e - emin)
        Y    == BShl(rpv.m, rpv.e - emin)
        P    == BShl(BFromInt(p), -emin)
    IN  BCmp(BMulSmall(X, q), BAdd(BMulSmall(Y, q), P)) <= 0

\* posLift >= revenuePerVisitGap, for posLift = 30.0 * 0.5 * 0.25 = 3.75 and
\* revenuePerVisitGap = max(0, revenueTargetPerVisit - revenuePerVisit)
PosLiftCoversGap == GapAtMost(FromCents(rev_target_input), res.rpv, 15, 4)

\* The own actions of an Insight Record, in the order of its four phases
OwnActions(p) ==
    p.do_tomorrow \o p.next_7_days \o p.next_30_60_days \o p.next_60_90_days

(***************************************************************************)
(* C12 as stated: when the revenue tier is not Excellent and posLift >=    *)
(* revenuePerVisitGap the POS co-pay capture push is in the immediate      *)
(* list, in every other case the quick POS audit is in the extended list;  *)
(* exactly one of the two is in each result.                               *)
(***************************************************************************)
C12_PosPatchApplied ==
    HasPack =>
        IF res.rf_t # "Excellent" /\ PosLiftCoversGap
        THEN /\ PosPushAction \in Range(res.top3_actions)
             /\ PosAuditAction \notin Range(res.extended_actions)
        ELSE /\ PosAuditAction \in Range(res.extended_actions)
             /\ PosPushAction \notin Range(res.top3_actions)

(***************************************************************************)
(* C12 amended: scenario resolution applies no POS capture patch: in every *)
(* result, whatever the revenue tier and the gap to the revenue target,    *)
(* neither POS action is in either list; the immediate list has at most 3  *)
(* entries and both lists hold actions of the Insight Record only.         *)
(***************************************************************************)
C12_NoPosPatch ==
    HasPack =>
        /\ {PosPushAction, PosAuditAction}
              \cap (Range(res.top3_actions) \cup Range(res.extended_actions)) = {}
        /\ Len(res.top3_actions) <= 3
        /\ Range(res.top3_actions) \cup Range(res.extended_actions)
              \subseteq Range(OwnActions(res.insight_pack))

\* Revenue At Risk, 2.00 below the target per visit: where a push is claimed
C12_Witness ==
    /\ HasPack
    /\ WidgetValues = <<1, 2300, 2500, 2500, 2500>>
    /\ res.rf_t = "At Risk"
    /\ PosLiftCoversGap
    /\ res.top3_actions = res.insight_pack.do_tomorrow
    /\ Len(res.extended_actions) = 16

(***************************************************************************)
(* Statements about two evaluations of one session                         *)
(***************************************************************************)
\* The evaluations of the session that resolved an Insight Record
Resolved == {ev \in evals : ev.res.outcome = "rendered" /\ ev.res.insight_pack # NoPack}

\* a + b <= c + d, exactly
FSumLe(a, b, c, d) ==
    LET e1   == IF a.e < b.e THEN a.e ELSE b.e
        e2   == IF c.e < d.e THEN c.e ELSE d.e
        emin == IF e1 < e2 THEN e1 ELSE e2
    IN  BCmp(BAdd(BShl(a.m, a.e - emin), BShl(b.m, b.e - emin)),
             BAdd(BShl(c.m, c.e - emin), BShl(d.m, d.e - emin))) <= 0

\* The revenue target of an evaluation
TargetOf(ev) == FromCents(ev.inputs[4])

\* revenuePerVisitGap of ev1 <= that of ev2 (neither above its target)
GapLe(ev1, ev2) ==
    FSumLe(TargetOf(ev1), ev2.res.rpv, TargetOf(ev2), ev1.res.rpv)

\* posLift = 3.75 >= revenuePerVisitGap of ev
LiftCoversGapOf(ev) == GapAtMost(TargetOf(ev), ev.res.rpv, 15, 4)

PosImmediate(ev) == PosPushAction \in Range(ev.res.top3_actions)

PosExtended(ev) == PosAuditAction \in Range(ev.res.extended_actions)

C14_UniversalActionsAdded ==
    Rendered =>
        /\ {HuddleAction, SwbContextAction} \subseteq Range(res.extended_actions)
        /\ HasPack =>
              Len(res.extended_actions) = Len(OwnActions(res.insight_pack)) + 2

(***************************************************************************)
(* C14 amended: for every resolved scenario the extended list is exactly   *)
(* the own actions of the Insight Record of the computed tier pair, its    *)
(* four phases in order, and nothing else: no universal action is added.   *)
(***************************************************************************)
C14_ExtendedIsOwnActions ==
    HasPack =>
        /\ \E p \in PacksOfTiers : res.extended_actions = OwnActions(p)
        /\ Len(res.extended_actions) =
              Len(res.insight_pack.do_tomorrow) + Len(res.insight_pack.next_7_days)
              + Len(res.insight_pack.next_30_60_days)
              + Len(res.insight_pack.next_60_90_days)
        /\ HuddleAction \notin Range(res.extended_actions)
        /\ SwbContextAction \notin Range(res.extended_actions)

\* (Excellent, Critical): 3 + 6 + 5 + 4 own actions
C14_Witness ==
    /\ HasPack
    /\ res.scenario_key = "scenario_04"
    /\ Len(res.extended_actions) = 18
    /\ res.extended_actions[18] = "s04.next_60_90_days.4"

\* The metrics of an evaluation
MetricsOf(ev) ==
    <<ev.res.rpv, ev.res.lcv, ev.res.swb_pct, ev.res.rf_raw, ev.res.lf_raw,
      ev.res.vvi_raw>>

Scored == {ev \in evals : ev.res.outcome = "rendered"}

SameFactorScores(ev1, ev2) ==
    /\ ev1.res.rf_score = ev2.res.rf_score
    /\ ev1.res.lf_score = ev2.res.lf_score

(***************************************************************************)
(* C16 as stated: two evaluations with equal RF and LF scores, whatever    *)
(* their labor share of revenue, get the same three tiers and the same     *)
(* scenario.                                                               *)
(***************************************************************************)
C16_FactorScoresFixAllTiers ==
    \A ev1, ev2 \in Scored :
        SameFactorScores(ev1, ev2) =>
            /\ ev1.res.rf_t = ev2.res.rf_t
            /\ ev1.res.lf_t = ev2.res.lf_t
            /\ ev1.res.vvi_t = ev2.res.vvi_t
            /\ ev1.res.scenario_key = ev2.res.scenario_key

(***************************************************************************)
(* C16 amended: labor share of revenue never drives tier logic: two        *)
(* evaluations with equal RF and LF scores get the same revenue tier, the  *)
(* same labor tier and the same Insight Record, and with an equal          *)
(* composite score as well the same composite tier, whatever their labor   *)
(* share of revenue.                                                       *)
(***************************************************************************)
C16_TiersFollowScoresOnly ==
    \A ev1, ev2 \in Scored :
        SameFactorScores(ev1, ev2) =>
            /\ ev1.res.rf_t = ev2.res.rf_t
            /\ ev1.res.lf_t = ev2.res.lf_t
            /\ ev1.res.scenario_key = ev2.res.scenario_key
            /\ ev1.res.insight_pack = ev2.res.insight_pack
            /\ ev1.res.vvi_score = ev2.res.vvi_score =>
                  ev1.res.vvi_t = ev2.res.vvi_t

\* The defaults and a clinic with their three scores and half their labor
\* share of revenue
C16_Witness ==
    \E ev1, ev2 \in Scored :
        /\ ev1.inputs = DefaultInputs
        /\ ev2.inputs = <<500, 20000000, 6500000, 28000, 8500>>
        /\ SameFactorScores(ev1, ev2)
        /\ ev1.res.vvi_score = ev2.res.vvi_score
        /\ ev1.res.swb_pct = FromCents(65)
        /\ ev2.res.swb_pct = FDiv(FromInt(13), FromInt(40))
        /\ ev1.res.scenario_key = "scenario_04"
        /\ ev2.res.scenario_key = "scenario_04"
        /\ ev1.res.vvi_t = ev2.res.vvi_t

C19_SavedRunInPortfolio ==
    (page.results /\ page.saved # <<>>) =>
        /\ Len(runs) >= 1
        /\ \E k \in 1..Len(runs) : runs[k].name = page.saved
        /\ page.portfolio
        /\ page.default_name \in {ClinicName(Len(runs)), ClinicName(Len(runs) + 1)}

\* The on-screen legend, on a displayed score given in tenths: Excellent
\* >= 100, Stable 95 - 99.9, At Risk 90 - 94.9, Critical below 90
LegendBand(d) ==
    IF BCmp(d, BFromInt(1000)) >= 0 THEN "Excellent"
    ELSE IF BCmp(d, BFromInt(950)) >= 0 /\ BCmp(d, BFromInt(999)) <= 0 THEN "Stable"
    ELSE IF BCmp(d, BFromInt(900)) >= 0 /\ BCmp(d, BFromInt(949)) <= 0 THEN "At Risk"
    ELSE IF BCmp(d, BFromInt(900)) < 0 THEN "Critical"
    ELSE "(no band)"

(***************************************************************************)
(* C20: every tier shown next to a score is the legend's band of the       *)
(* displayed one-decimal score, for RF, LF and VVI alike; the displayed    *)
(* value is the raw score rounded to one decimal, and the tier is computed *)
(* from that rounded value.                                                *)
(***************************************************************************)
C20_TierMatchesLegend ==
    Rendered =>
        /\ res.rf_t = LegendBand(FormatTenths(res.rf_score))
        /\ res.lf_t = LegendBand(FormatTenths(res.lf_score))
        /\ res.vvi_t = LegendBand(FormatTenths(res.vvi_score))
        /\ FormatTenths(res.rf_score) = RoundTenths(res.rf_score_raw)
        /\ FormatTenths(res.lf_score) = RoundTenths(res.lf_score_raw)
        /\ FormatTenths(res.vvi_score) = RoundTenths(res.vvi_score_raw)

\* A raw revenue score of 99.96 is displayed as 100.0 and shown Excellent; a
\* raw labor score of 99.96 likewise; their composite 99.9 is shown Stable
C20_Witness ==
    /\ Rendered
    /\ WidgetValues = <<1, 2499, 2501, 2500, 2500>>
    /\ FLt(res.rf_score_raw, FromInt(100))
    /\ FormatTenths(res.rf_score) = BFromInt(1000)
    /\ res.rf_t = "Excellent"
    /\ FormatTenths(res.vvi_score) = BFromInt(999)
    /\ res.vvi_t = "Stable"

(***************************************************************************)
(* C21 - C29                                                               *)
(***************************************************************************)
\* What the simulator shows on the page: the block on the results, the
\* targets and the simulator's widget values of the last script run
SimView ==
    SimulatorBlock(res, FromCents(rev_target_input), FromCents(lab_target_input),
                   SimWidgets(sim))

\* The simulator's table is on the page
SimShown == res.outcome = "rendered" /\ sim.shown /\ ~sim.raised

\* A step in which the user changed a widget of the simulator: the widgets
\* are on the page before and after, with other values
SimulatorStep ==
    sim.shown /\ sim'.shown /\ SimWidgets(sim') # SimWidgets(sim)

\* C21: using the impact simulator, in either mode and with any deltas,
\* leaves the actual results unchanged: a step that changes a widget of the
\* simulator keeps rpv, lcv, the scores, the tiers, the scenario (all of
\* res), the portfolio list, assessment_ready and the form's values, and the
\* "Current" row of the table shows the actual values.
C21_SimulatorLeavesResults ==
    /\ [][SimulatorStep =>
             /\ res' = res
             /\ runs' = runs
             /\ assessment_ready' = assessment_ready
             /\ WidgetValues' = WidgetValues
             /\ SimShown']_vars
    /\ [](SimShown =>
             SimView.Current = [NRPV |-> FormatCents(res.rpv),
                                LCV |-> FormatCents(res.lcv),
                                VVI |-> FormatTenths(res.vvi_score),
                                RF |-> FormatTenths(res.rf_score),
                                LF |-> FormatTenths(res.lf_score)])

\* The simulator was used: it is in dollar mode with a changed delta and its
\* simulated row differs from the current one
C21_Witness ==
    /\ SimShown
    /\ sim.mode = "Dollar change"
    /\ sim.nrpv_delta = -100000
    /\ SimView.Simulated # SimView.Current
    /\ SimView.Current.NRPV = BFromInt(20000)

\* C22: ai_coach_answer returns ok=True only for a selected_question of the
\* fixed list of allowed questions; for any other question it returns
\* ok=False, with the fixed refusal text when the SDK and the API key are
\* present, and makes no request to the model API.  Every option of the
\* question selectbox is in the allowed list, so the button "Ask AI Coach"
\* is never answered with the refusal.
C22_OnlyAllowedQuestionsAnswered ==
    (call.fn = "ai_coach_answer" /\ call.returned) =>
        /\ call.ok => call.selected_question \in Range(ALLOWED_QUESTIONS)
        /\ call.selected_question \notin Range(ALLOWED_QUESTIONS) =>
              /\ ~call.ok
              /\ call.request = NoRequest
              /\ (call.sdk /\ call.key) => call.md = RefusalText
        /\ call.via = "Ask AI Coach" =>
              /\ call.selected_question \in Range(ALLOWED_QUESTIONS)
              /\ call.md # RefusalText

\* A question outside the list was refused with the SDK and the key present
C22_Witness ==
    /\ call.fn = "ai_coach_answer" /\ call.returned
    /\ call.selected_question = "What should I tell frontline managers in tomorrow's huddle?"
    /\ call.sdk /\ call.key
    /\ ~call.ok /\ call.md = RefusalText /\ call.request = NoRequest

\* The step of clicking "Start a New Assessment" on a rendered page
StartNewAssessment ==
    /\ "Start a New Assessment" \in page.buttons
    /\ RunScript(WidgetValues, assessment_ready, "Start a New Assessment", <<>>,
                 SimWidgets(sim))
    /\ UNCHANGED <<SCENARIO_LOOKUP, INSIGHT_PACKS, visits_input, net_rev_input,
                   labor_cost_input, rev_target_input, lab_target_input, call>>

\* C23: assessment_ready is False at session start, becomes True only when
\* the input form is submitted, stays True across every later rerun that is
\* not a reset (AI Coach button, simulator changes) and becomes False only
\* through "Start a New Assessment"; the results are computed and rendered
\* in exactly the script runs in which it is True.
C23_ReadyFollowsSubmitAndReset ==
    /\ ~assessment_ready
    /\ [][(~assessment_ready /\ assessment_ready') => SubmitSim]_vars
    /\ [][(assessment_ready /\ ~assessment_ready') => StartNewAssessment]_vars
    /\ [](assessment_ready <=> res.outcome = "rendered")
    /\ [](assessment_ready <=> page.results)

\* assessment_ready is True after the simulator was used on the results of a
\* second submitted form
C23_Witness ==
    /\ assessment_ready
    /\ Cardinality(evals) = 2
    /\ sim.shown /\ sim.mode = "Dollar change" /\ sim.lcv_delta = 0
    /\ page.results

\* C24: reset_assessment ("Start a New Assessment") changes only
\* assessment_ready, setting it to False: the portfolio list and the stored
\* input values are left unchanged, and results are not shown again until
\* the form is next submitted.
C24_ResetOnlyClearsReady ==
    /\ [][StartNewAssessment =>
             /\ assessment_ready /\ ~assessment_ready'
             /\ runs' = runs
             /\ WidgetValues' = WidgetValues
             /\ ~page'.results /\ res' = NotRun]_vars
    /\ [][(~page.results /\ page'.results) => SubmitForm]_vars
    /\ [](~assessment_ready => (~page.results /\ page.buttons = {} /\ res = NotRun))

\* After a reset: no results on the page, the results of an earlier run in
\* the history, and the form still holding the values last submitted
C24_Witness ==
    /\ ~assessment_ready
    /\ evals # {}
    /\ WidgetValues = <<1, 7122, 2501, 7500, 2500>>
    /\ ~page.results

\* The place of a tier in TIER_ORDER: Critical < At Risk < Stable < Excellent
TierRank(t) == CHOOSE k \in DOMAIN TIER_ORDER : TIER_ORDER[k] = t

\* The least value of the grid S above x, if there is one
NextAbove(S, x) == {y \in S : y > x /\ \A z \in S : z > x => y <= z}

\* The results block on the session's widget values with the net revenue n
\* and the labor cost l
ResultsWith(n, l) ==
    ResultsBlock(visits_input, n, l, rev_target_input, lab_target_input)

\* The results o, of more net revenue, have no lower revenue factor, score
\* and tier than res
RevenueNotLower(o) ==
    /\ o.outcome = "rendered"
    /\ FGe(o.rf_raw, res.rf_raw)
    /\ rev_target_input > 0 => FCmp(o.rf_raw, res.rf_raw) > 0
    /\ FGe(o.rf_score, res.rf_score)
    /\ TierRank(o.rf_t) >= TierRank(res.rf_t)

\* The results o, of more labor cost, have no higher labor factor, score and
\* tier than res
LaborNotHigher(o) ==
    /\ o.outcome = "rendered"
    /\ FGe(res.lf_raw, o.lf_raw)
    /\ lab_target_input > 0 => FCmp(res.lf_raw, o.lf_raw) > 0
    /\ FGe(res.lf_score, o.lf_score)
    /\ TierRank(o.lf_t) <= TierRank(res.lf_t)

\* C25: with the other inputs fixed, raising the net revenue never lowers the
\* revenue factor, score and tier (and raises the factor when there is a
\* target), raising the labor cost never raises the labor factor, score and
\* tier (and lowers the factor when there is a target), and tier_from_score
\* is non-decreasing in the score along Critical < At Risk < Stable <
\* Excellent.
C25_FactorsMonotone ==
    Rendered =>
        /\ \A n \in NextAbove(NetGrid, net_rev_input) :
              RevenueNotLower(ResultsWith(n, labor_cost_input))
        /\ \A l \in NextAbove(LaborGrid, labor_cost_input) :
              LaborNotHigher(ResultsWith(net_rev_input, l))
        /\ \A x, y \in {res.rf_score, res.lf_score, res.vvi_score} :
              FGe(y, x) => TierRank(tier_from_score(y)) >= TierRank(tier_from_score(x))

\* One visit, 23.74 of revenue and 25.01 of labor cost against targets of
\* 25.00: the revenue tier is Stable and becomes Excellent with 24.99 of
\* revenue; the labor tier is Excellent and becomes Stable with 26.32 of
\* labor cost
C25_Witness ==
    /\ Rendered
    /\ WidgetValues = <<1, 2374, 2501, 2500, 2500>>
    /\ res.rf_t = "Stable" /\ res.lf_t = "Excellent"
    /\ 2499 \in NextAbove(NetGrid, net_rev_input)
    /\ ResultsWith(2499, labor_cost_input).rf_t = "Excellent"
    /\ 2632 \in NextAbove(LaborGrid, labor_cost_input)
    /\ ResultsWith(net_rev_input, 2632).lf_t = "Stable"

BothExcellent == res.rf_t = "Excellent" /\ res.lf_t = "Excellent"

BothCritical == res.rf_t = "Critical" /\ res.lf_t = "Critical"

(***************************************************************************)
(* C26 as stated: in every evaluation where the revenue tier and the labor *)
(* tier are both Excellent the composite tier is Excellent, and where both *)
(* are Critical the composite tier is Critical.                            *)
(***************************************************************************)
C26_CompositeTierFollowsFactors ==
    Rendered =>
        /\ BothExcellent => res.vvi_t = "Excellent"
        /\ BothCritical => res.vvi_t = "Critical"

\* C26, amended: where the revenue tier and the labor tier are both
\* Excellent the composite score is at least 99.9, so the composite tier is
\* Excellent or Stable, and it is Excellent when both unrounded factor
\* scores are at least 100; where both are Critical and both targets are
\* positive the composite tier is Critical.
C26_CompositeTierNearFactors ==
    Rendered =>
        /\ BothExcellent =>
              /\ FCmpRat(res.vvi_score_raw, 1997, 20) >= 0
              /\ FGe(res.vvi_score, FromCents(9990))
              /\ res.vvi_t \in {"Excellent", "Stable"}
              /\ (FGe(res.rf_score_raw, FromInt(100)) /\ FGe(res.lf_score_raw, FromInt(100)))
                    => res.vvi_t = "Excellent"
        /\ (BothCritical /\ rev_target_input > 0 /\ lab_target_input > 0) =>
              res.vvi_t = "Critical"

\* One visit, 24.99 of revenue and 25.01 of labor cost against targets of
\* 25.00: both factor scores are 99.96 and show as 100.0, Excellent; the
\* composite score is 99.92 and shows as 99.9, Stable
C26_Witness ==
    /\ Rendered
    /\ WidgetValues = <<1, 2499, 2501, 2500, 2500>>
    /\ BothExcellent
    /\ res.vvi_score = FromCents(9990)
    /\ res.vvi_t = "Stable"

\* C27: every Insight Pack's own rf_tier and lf_tier fields are the tier pair
\* that SCENARIO_LOOKUP maps to it, the 16 tier pairs map to 16 distinct keys
\* and packs, and the pack got for an evaluation names the revenue and the
\* labor tier computed for it.
C27_PackNamesItsTiers ==
    /\ \A pair \in DOMAIN SCENARIO_LOOKUP :
          /\ SCENARIO_LOOKUP[pair] \in DOMAIN INSIGHT_PACKS
          /\ INSIGHT_PACKS[SCENARIO_LOOKUP[pair]].rf_tier = pair[1]
          /\ INSIGHT_PACKS[SCENARIO_LOOKUP[pair]].lf_tier = pair[2]
    /\ DOMAIN SCENARIO_LOOKUP = Tiers \X Tiers
    /\ Cardinality({SCENARIO_LOOKUP[pair] : pair \in DOMAIN SCENARIO_LOOKUP}) = 16
    /\ Cardinality({INSIGHT_PACKS[SCENARIO_LOOKUP[pair]] : pair \in DOMAIN SCENARIO_LOOKUP}) = 16
    /\ Cardinality({INSIGHT_PACKS[SCENARIO_LOOKUP[pair]].id : pair \in DOMAIN SCENARIO_LOOKUP}) = 16
    /\ \A rf_t \in Tiers, lf_t \in Tiers :
          /\ get_insight_pack_for_tiers(rf_t, lf_t).pack.rf_tier = rf_t
          /\ get_insight_pack_for_tiers(rf_t, lf_t).pack.lf_tier = lf_t
    /\ Rendered =>
          /\ res.insight_pack.rf_tier = res.rf_t
          /\ res.insight_pack.lf_tier = res.lf_t
          /\ res.insight_pack = INSIGHT_PACKS[res.scenario_key]

\* An evaluation with different revenue and labor tiers whose pack names them
C27_Witness ==
    /\ Rendered
    /\ res.rf_t = "Stable" /\ res.lf_t = "Critical"
    /\ res.scenario_key = "scenario_08"
    /\ res.insight_pack.rf_tier = "Stable" /\ res.insight_pack.lf_tier = "Critical"

\* Both deltas of the simulator are zero
ZeroDeltas == sim.nrpv_delta = 0 /\ sim.lcv_delta = 0

(***************************************************************************)
(* C28 as stated: with both simulator deltas set to zero, in percent mode  *)
(* and in dollar mode, the "Simulated" row equals the "Current" row for    *)
(* every valid assessment.                                                 *)
(***************************************************************************)
C28_ZeroDeltasSameRow ==
    (SimShown /\ ZeroDeltas) => SimView.Simulated = SimView.Current

\* C28, amended: with both deltas zero, in either mode, the simulated NRPV
\* and LCV are the actual ones raised to the floor of 0.01; for an
\* assessment whose NRPV and LCV are both at least 0.01 they are the actual
\* values and the "Simulated" row equals the "Current" row in all five
\* columns.
C28_ZeroDeltasSameRowAboveFloor ==
    (SimShown /\ ZeroDeltas) =>
        /\ SimView.sim_rpv = IF FLt(res.rpv, FromCents(1)) THEN FromCents(1) ELSE res.rpv
        /\ SimView.sim_lcv = IF FLt(res.lcv, FromCents(1)) THEN FromCents(1) ELSE res.lcv
        /\ (FGe(res.rpv, FromCents(1)) /\ FGe(res.lcv, FromCents(1))) =>
              /\ SimView.Simulated = SimView.Current
              /\ SimView.sim_rf_score = res.rf_score_raw
              /\ SimView.sim_lf_score = res.lf_score_raw
              /\ SimView.sim_vvi_score = res.vvi_score_raw

\* Zero deltas in percent mode on the clinic whose factor scores are 99.96:
\* both rows show 24.99, 25.01, 99.9, 100.0 and 100.0
C28_Witness ==
    /\ SimShown /\ ZeroDeltas
    /\ sim.mode = "Percent change"
    /\ WidgetValues = <<1, 2499, 2501, 2500, 2500>>
    /\ SimView.Simulated = SimView.Current
    /\ SimView.Simulated = [NRPV |-> BFromInt(2499), LCV |-> BFromInt(2501),
                            VVI |-> BFromInt(999), RF |-> BFromInt(1000),
                            LF |-> BFromInt(1000)]

====
